---- MODULE Spec2Model ----
(***************************************************************************)
(* A model of the smart-tutor student simulators (code/student.py) and of  *)
(* the trajectory drivers and worker reductions of code/mcts_tests.py.     *)
(*                                                                         *)
(* numpy arrays are modelled as cells of a heap, and every student object  *)
(* holds references to its arrays, so that copy(), reset() and the in-place*)
(* writes of do_exercise keep the aliasing behaviour of the Python code.   *)
(*                                                                         *)
(* The training side (code/model_training.py and the second half of        *)
(* code/mcts_tests.py) has a specification of its own for each part: the   *)
(* children map keyed by StudentAction, training and memoization workers,  *)
(* the memoization recursion, staggered training, and the dktcache.        *)
(***************************************************************************)
EXTENDS Integers, Sequences, FiniteSets, TLC

VARIABLES
    heap,        \* array reference -> contents of the numpy array
    objs,        \* object name -> the student (and simulator) object of that name
    last,        \* the last call made: operation, target, exercise, results
    tries,       \* per object and concept: calls since reset that tested the
                 \* concept with prerequisites fulfilled (saturating)
    lastReward,  \* per object: reward of its latest advance_simulator, -1 if none
    drv,         \* the trajectory driver: which one, where it is in its loop
    pol,         \* an open-loop policy applied to a student: the sequence, the position
    chunk,       \* the parallel evaluation: the workers' sums, the reduced result
    children,    \* a node's map from StudentAction keys to children
    train,       \* dkt_train_models / dkt_memoize_models and their workers
    memo,        \* dkt_memoize_single_recurse: the call stack, the rows written
    stag,        \* the staggered training worker and its controller
    cache        \* the dktcache instances and the checkpoints they served

vars == <<heap, objs, last, tries, lastReward, drv, pol, chunk,
          children, train, memo, stag, cache>>

----------------------------------------------------------------------------
(* Sizes *)

NConcepts == 4
Concepts == 0..(NConcepts - 1)

\* Probabilities and random draws are counted in quarters: 2 is 0.5, 4 is 1.0.
\* np.random.random() draws from [0.0, 1.0): 0.0 is a possible draw, 1.0 is not.
\* The draws 0.0 and 0.75 fall on either side of every probability but 1.0.
DrawValues == {0, 3}

\* Saturation of the per-concept attempt counters (observation only).
MaxTries == 2

\* The longest trajectory a driver is asked for.
MaxHorizon == 4

\* The horizons a driver is called with: the shortest and the longest.
Horizons == {1, MaxHorizon}

\* The longest chain of perform() calls of one rollout.
MaxDepth == 2

\* horizon = 6 of dkt_test_policy: the length of an open-loop policy.
PolicyHorizon == 6

\* The most workers and the most trajectories asked of a parallel evaluation.
MaxJobs == 3

MaxTrajectories == 5

\* The most trials of one open-loop policy.
MaxTrials == 2

----------------------------------------------------------------------------
(* Vectors (numpy arrays of length n_concepts) *)

Vec(v) == [c \in Concepts |-> v]

NpZeros == Vec(0)

OneHot(concept) == [c \in Concepts |-> IF c = concept THEN 1 ELSE 0]

BinaryVectors == [Concepts -> {0, 1}]

RECURSIVE SumUpTo(_, _)
SumUpTo(vec, n) == IF n < 0 THEN 0 ELSE vec[n] + SumUpTo(vec, n - 1)

NpSum(vec) == SumUpTo(vec, NConcepts - 1)

NpMultiply(a, b) == [c \in Concepts |-> a[c] * b[c]]

----------------------------------------------------------------------------
(* Concept dependency graph: the default tree. Concept i > 0 has the       *)
(* single prerequisite (i-1) div 2; concept 0 is the root.                 *)

DefaultTree == [i \in Concepts |-> IF i = 0 THEN {} ELSE {(i - 1) \div 2}]

GraphIds == {1, 2}

\* The graph objects of a run; all are built by init_default_tree(n_concepts).
DGraph(g) == DefaultTree

GetPrereqs(g, i) == [j \in Concepts |-> IF j \in DGraph(g)[i] THEN 1 ELSE 0]

----------------------------------------------------------------------------
(* Pure parts of Student and Student2 *)

\* A test of the prerequisites that lets every exercise pass.
FulfilledPrereqs_NoCheck(g, knowledge, concepts) == TRUE

\* fulfilled_prereqs: every tested concept has all its prerequisites mastered.
FulfilledPrereqs(g, knowledge, concepts) ==
    \A i \in Concepts :
        concepts[i] = 1 =>
            NpSum(NpMultiply(knowledge, GetPrereqs(g, i))) = NpSum(GetPrereqs(g, i))

\* learned_all_concepts_in_ex satisfied by one mastered concept of the exercise.
LearnedAllConceptsInEx_Any(knowledge, concepts) ==
    \E c \in Concepts : concepts[c] = 1 /\ knowledge[c] = 1

LearnedAllConceptsInEx(knowledge, concepts) ==
    \A c \in Concepts : ~(concepts[c] = 1 /\ knowledge[c] = 0)

\* Student.do_exercise with a failed draw clearing the concept.
StudentStep_Forget(g, p, knowledge, ex, draws, dlast) ==
    IF FulfilledPrereqs(g, knowledge, ex)
    THEN LET k2 == [c \in Concepts |->
                      IF ex[c] = 1
                      THEN (IF draws[c] <= p.p_trans_satisfied THEN 1 ELSE 0)
                      ELSE knowledge[c]]
         IN [knowledge |-> k2,
             ret |-> IF LearnedAllConceptsInEx(k2, ex)
                        /\ dlast <= p.p_get_ex_correct_if_concepts_learned
                     THEN 1 ELSE 0]
    ELSE [knowledge |-> knowledge,
          ret |-> IF dlast <= p.p_trans_not_satisfied THEN 1 ELSE 0]

\* Student.do_exercise on values. draws[c] is the draw of the loop for concept c
\* (taken only when the exercise tests c), dlast the draw of the return statement.
StudentStep(g, p, knowledge, ex, draws, dlast) ==
    IF FulfilledPrereqs(g, knowledge, ex)
    THEN LET k2 == [c \in Concepts |->
                      IF ex[c] = 1 /\ draws[c] <= p.p_trans_satisfied
                      THEN 1 ELSE knowledge[c]]
         IN [knowledge |-> k2,
             ret |-> IF LearnedAllConceptsInEx(k2, ex)
                        /\ dlast <= p.p_get_ex_correct_if_concepts_learned
                     THEN 1 ELSE 0]
    ELSE [knowledge |-> knowledge,
          ret |-> IF dlast <= p.p_trans_not_satisfied THEN 1 ELSE 0]

\* Student2.do_exercise granting mastery at the first visit.
Student2Step_FirstTry(g, knowledge, visited, ex) ==
    LET ok == FulfilledPrereqs(g, knowledge, ex)
        k2 == [c \in Concepts |-> IF ok /\ ex[c] = 1 THEN 1 ELSE knowledge[c]]
        v2 == [c \in Concepts |-> IF ok /\ ex[c] = 1 THEN 1 ELSE visited[c]]
    IN [knowledge |-> k2, visited |-> v2,
        ret |-> IF LearnedAllConceptsInEx(k2, ex) THEN 1 ELSE 0]

\* Student2.do_exercise marking the concept visited outside the prerequisite test.
Student2Step_NoGate(g, knowledge, visited, ex) ==
    LET ok == FulfilledPrereqs(g, knowledge, ex)
        k2 == [c \in Concepts |->
                 IF ok /\ ex[c] = 1 /\ visited[c] >= 1 THEN 1 ELSE knowledge[c]]
        v2 == [c \in Concepts |-> IF ex[c] = 1 THEN 1 ELSE visited[c]]
    IN [knowledge |-> k2, visited |-> v2,
        ret |-> IF LearnedAllConceptsInEx(k2, ex) THEN 1 ELSE 0]

\* Student2.do_exercise on values.
Student2Step(g, knowledge, visited, ex) ==
    LET ok == FulfilledPrereqs(g, knowledge, ex)
        k2 == [c \in Concepts |->
                 IF ex[c] = 1 /\ visited[c] >= 1 /\ ok THEN 1 ELSE knowledge[c]]
        v2 == [c \in Concepts |-> IF ex[c] = 1 /\ ok THEN 1 ELSE visited[c]]
    IN [knowledge |-> k2, visited |-> v2,
        ret |-> IF LearnedAllConceptsInEx(k2, ex) THEN 1 ELSE 0]

----------------------------------------------------------------------------
(* Memory: a heap of arrays and the student objects that refer to them *)

\* stud: the template student handed to a driver; sim: the true simulator;
\* model: a copy of the simulator; hyp: a hypothetical copy made by the search.
ObjNames == {"stud", "sim", "model", "hyp"}

ObjIndex == [o \in ObjNames |->
               CASE o = "stud" -> 0 [] o = "sim" -> 1 [] o = "model" -> 2 [] OTHER -> 3]

\* Every object has two cells per field at its disposal: an allocation takes the
\* first one that no other object refers to. Addresses carry no meaning in the
\* Python code, so which free cell an allocation returns is immaterial.
Cell(o, f, alt) == 4 * ObjIndex[o] + (IF f = "knowledge" THEN 0 ELSE 2) + (IF alt THEN 2 ELSE 1)

ArrIds == 1..(4 * Cardinality(ObjNames))

FreeArr == Vec(-1)

NoParams == [p_trans_satisfied |-> 0, p_trans_not_satisfied |-> 0,
             p_get_ex_correct_if_concepts_learned |-> 0]

NoObj == [kind |-> "none", knowledge |-> 0, visited |-> 0, p |-> NoParams, dgraph |-> 0]

EmptyMem == [heap |-> [i \in ArrIds |-> FreeArr], objs |-> [o \in ObjNames |-> NoObj]]

Referenced(os, a) == \E q \in ObjNames : os[q].knowledge = a \/ os[q].visited = a

\* A cell for a new array of field f of object o.
Fresh(os, o, f) ==
    IF \E q \in ObjNames \ {o} : os[q].knowledge = Cell(o, f, FALSE)
                                  \/ os[q].visited = Cell(o, f, FALSE)
    THEN Cell(o, f, TRUE) ELSE Cell(o, f, FALSE)

\* Garbage collection: an array no object refers to is gone.
Collect(m) ==
    [heap |-> [i \in ArrIds |-> IF Referenced(m.objs, i) THEN m.heap[i] ELSE FreeArr],
     objs |-> m.objs]

\* np.zeros / np.copy: a new array holding vec, referred to by field f of object o.
NewArray(m, o, f, vec) ==
    LET a == Fresh(m.objs, o, f)
    IN [heap |-> [m.heap EXCEPT ![a] = vec],
        objs |-> IF f = "knowledge"
                 THEN [m.objs EXCEPT ![o].knowledge = a]
                 ELSE [m.objs EXCEPT ![o].visited = a]]

KnowledgeIn(m, o) == m.heap[m.objs[o].knowledge]

VisitedIn(m, o) == IF m.objs[o].visited = 0 THEN NpZeros ELSE m.heap[m.objs[o].visited]

----------------------------------------------------------------------------
(* Student and Student2 on the memory *)

\* Student.__init__ with initial_knowledge = 0.
Student_init(m, o, p) ==
    NewArray([m EXCEPT !.objs[o] = [NoObj EXCEPT !.kind = "Student", !.p = p]],
             o, "knowledge", NpZeros)

\* Student2.__init__
Student2_init(m, o) ==
    NewArray(NewArray([m EXCEPT !.objs[o] = [NoObj EXCEPT !.kind = "Student2"]],
                      o, "knowledge", NpZeros),
             o, "visited", NpZeros)

Student_reset(m, o) == NewArray(m, o, "knowledge", NpZeros)

Student2_reset(m, o) ==
    NewArray(NewArray(m, o, "knowledge", NpZeros), o, "visited", NpZeros)

Reset(m, o) ==
    IF m.objs[o].kind = "Student" THEN Student_reset(m, o) ELSE Student2_reset(m, o)

\* A Student.copy() that shares the knowledge array of the source.
Student_copy_Alias(m, src, dst) ==
    [m EXCEPT !.objs[dst] = [m.objs[src] EXCEPT !.dgraph = 0]]

\* Student.copy: the parameters and a copy of the knowledge array.
Student_copy(m, src, dst) ==
    NewArray([m EXCEPT !.objs[dst] = [NoObj EXCEPT !.kind = "Student", !.p = m.objs[src].p]],
             dst, "knowledge", KnowledgeIn(m, src))

\* A copy() that keeps the references of the source instead of copying the arrays.
Student2_copy_Alias(m, src, dst) ==
    [m EXCEPT !.objs[dst] = [m.objs[src] EXCEPT !.dgraph = 0]]

\* Student2.copy: copies of the knowledge and the visited array.
Student2_copy(m, src, dst) ==
    NewArray(NewArray([m EXCEPT !.objs[dst] = [NoObj EXCEPT !.kind = "Student2"]],
                      dst, "knowledge", KnowledgeIn(m, src)),
             dst, "visited", VisitedIn(m, src))

Copy(m, src, dst) ==
    IF m.objs[src].kind = "Student" THEN Student_copy(m, src, dst)
    ELSE Student2_copy(m, src, dst)

\* A set-up that leaves concept 0 unknown.
SetKnowledge0_Skip(m, o) == m

\* student.knowledge[0] = 1, the drivers' write after reset().
SetKnowledge0(m, o) ==
    [m EXCEPT !.heap[m.objs[o].knowledge] = [@ EXCEPT ![0] = 1]]

\* Student.do_exercise: writes the knowledge array in place.
Student_do_exercise(m, o, g, ex, draws, dlast) ==
    LET r == StudentStep(g, m.objs[o].p, KnowledgeIn(m, o), ex, draws, dlast)
    IN [mem |-> [m EXCEPT !.heap[m.objs[o].knowledge] = r.knowledge], ret |-> r.ret]

\* Student2.do_exercise: writes the knowledge and the visited array in place.
Student2_do_exercise(m, o, g, ex) ==
    LET r == Student2Step(g, KnowledgeIn(m, o), VisitedIn(m, o), ex)
    IN [mem |-> [m EXCEPT !.heap = [@ EXCEPT ![m.objs[o].knowledge] = r.knowledge,
                                             ![m.objs[o].visited] = r.visited]],
        ret |-> r.ret]

\* A Student2 whose answer is subject to a draw.
DoExercise_Drawn(m, o, g, ex, draws, dlast) ==
    IF m.objs[o].kind = "Student" THEN Student_do_exercise(m, o, g, ex, draws, dlast)
    ELSE [Student2_do_exercise(m, o, g, ex) EXCEPT !.ret = IF dlast = 0 THEN @ ELSE 0]

DoExercise(m, o, g, ex, draws, dlast) ==
    IF m.objs[o].kind = "Student" THEN Student_do_exercise(m, o, g, ex, draws, dlast)
    ELSE Student2_do_exercise(m, o, g, ex)

----------------------------------------------------------------------------
(* StudentExactSim *)

\* StudentExactSim(student, dgraph): the wrapper refers to the student it is given.
StudentExactSim_init(m, o, g) == [m EXCEPT !.objs[o].dgraph = g]

\* advance_simulator with the reward read after do_exercise.
AdvanceSimulator_RewardAfter(m, o, concept, draws, dlast) ==
    LET r == DoExercise(m, o, m.objs[o].dgraph, OneHot(concept), draws, dlast)
    IN [mem |-> r.mem, ob |-> r.ret, reward |-> NpSum(KnowledgeIn(r.mem, o))]

\* advance_simulator: the reward is read before do_exercise runs.
AdvanceSimulator(m, o, concept, draws, dlast) ==
    LET reward == NpSum(KnowledgeIn(m, o))
        r == DoExercise(m, o, m.objs[o].dgraph, OneHot(concept), draws, dlast)
    IN [mem |-> r.mem, ob |-> r.ret, reward |-> reward]

\* StudentExactSim.copy: a copy of the student, the same dgraph.
StudentExactSim_copy(m, src, dst) ==
    StudentExactSim_init(Copy(m, src, dst), dst, m.objs[src].dgraph)

----------------------------------------------------------------------------
(* The student simulators driven directly: one simulator x *)

Mem == [heap |-> heap, objs |-> objs]

Knowledge(o) == heap[objs[o].knowledge]

Visited(o) == IF objs[o].visited = 0 THEN NpZeros ELSE heap[objs[o].visited]

Live(o) == objs[o].kind # "none"

\* Student's defaults are p_trans_satisfied = 0.5, p_trans_not_satisfied = 0.0 and
\* p_get_ex_correct_if_concepts_learned = 1.0; callers pass others.
ParamSets == [p_trans_satisfied : {2}, p_trans_not_satisfied : {0},
              p_get_ex_correct_if_concepts_learned : {2, 4}]

\* The exercises given: every single-concept exercise, and two exercises that
\* test two concepts (two siblings; a concept and its prerequisite).
Exercises == {OneHot(c) : c \in Concepts}
             \cup {[c \in Concepts |-> IF c \in {1, 2} THEN 1 ELSE 0],
                   [c \in Concepts |-> IF c \in {1, 3} THEN 1 ELSE 0]}

\* The draws a call consumes: one per tested concept for Student, none for Student2.
DrawsFor(o, ex) ==
    IF objs[o].kind = "Student"
    THEN {d \in [Concepts -> DrawValues] : \A c \in Concepts : ex[c] = 0 => d[c] = 0}
    ELSE {Vec(0)}

LastDrawsFor(o) == IF objs[o].kind = "Student" THEN DrawValues ELSE {0}

NoCall == [op |-> "none", tgt |-> "sim", ex |-> NpZeros, ret |-> -1, reward |-> -1, prev |-> -1]

CallOps == {"do_exercise", "advance_simulator"}

\* The memory after a call that allocates or drops arrays.
SetMem(m) ==
    LET n == Collect(m)
    IN heap' = n.heap /\ objs' = n.objs

\* The memory after a call that only writes into arrays.
SetHeap(m) == heap' = m.heap /\ UNCHANGED objs

\* The simulator x and its copy c = x.copy()
X == "sim"

C == "model"

\* The attempt counters after a call on a Student2 o with exercise ex.
TriesAfter(o, ex) ==
    IF objs[o].kind = "Student2" /\ FulfilledPrereqs(objs[o].dgraph, Knowledge(o), ex)
    THEN [tries EXCEPT ![o] = [c \in Concepts |->
             IF ex[c] = 1 /\ @[c] < MaxTries THEN @[c] + 1 ELSE @[c]]]
    ELSE tries

\* x = StudentExactSim(Student(...), dgraph) or StudentExactSim(Student2(n), dgraph)
InitMem ==
    \E kind \in {"Student", "Student2"} : \E p \in ParamSets :
        LET m == IF kind = "Student"
                 THEN Student_init(EmptyMem, X, p)
                 ELSE Student2_init(EmptyMem, X)
            n == Collect(StudentExactSim_init(m, X, 1))
        IN /\ kind = "Student2" => p = [p_trans_satisfied |-> 2, p_trans_not_satisfied |-> 0,
                                        p_get_ex_correct_if_concepts_learned |-> 4]
           /\ heap = n.heap
           /\ objs = n.objs

NoDriver == [pc |-> "idle", driver |-> "none", horizon |-> 0, i |-> 0, commits |-> 0,
             step |-> "none", depth |-> 0, k0 |-> 0, dense |-> 0, sparse |-> 0]

NoPolicy == [seq |-> <<>>, i |-> 0, trial |-> 0]

NoChunk == [pc |-> "idle", n_trajectories |-> 0, n_jobs |-> 0, traj_per_job |-> 0,
            ran |-> <<>>, acc |-> <<>>, best_q |-> <<>>, accs |-> <<>>, finished |-> <<>>,
            scores |-> 0, qs |-> 0, executed |-> 0, posttests |-> 0, results |-> <<>>]

\* A part of the training side that has not been started.
Idle == [pc |-> "idle"]

\* The state of the simulators, drivers and evaluations, and the state of the
\* training side, as groups.
core == <<heap, objs, last, tries, lastReward, drv, pol, chunk>>

rest == <<children, train, memo, stag, cache>>

RestIdle ==
    /\ children = Idle
    /\ train = Idle
    /\ memo = Idle
    /\ stag = Idle
    /\ cache = Idle

InitStudent ==
    /\ InitMem
    /\ drv = NoDriver
    /\ pol = NoPolicy
    /\ chunk = NoChunk
    /\ RestIdle
    /\ last = NoCall
    /\ tries = [o \in ObjNames |-> NpZeros]
    /\ lastReward = [o \in ObjNames |-> -1]

\* o.student.reset()
SReset(o) ==
    /\ Live(o)
    /\ SetMem(Reset(Mem, o))
    /\ last' = [NoCall EXCEPT !.op = "reset", !.tgt = o]
    /\ tries' = [tries EXCEPT ![o] = NpZeros]
    /\ lastReward' = [lastReward EXCEPT ![o] = -1]

\* o.student.knowledge[0] = 1, which the drivers do right after reset()
SSetKnowledge0(o) ==
    /\ Live(o)
    /\ last.op = "reset" /\ last.tgt = o
    /\ SetHeap(SetKnowledge0(Mem, o))
    /\ last' = [NoCall EXCEPT !.op = "set_knowledge0", !.tgt = o]
    /\ UNCHANGED <<tries, lastReward>>

\* o.student.do_exercise(o.dgraph, Exercise(ex))
SDoExercise(o, ex) ==
    /\ Live(o)
    /\ \E draws \in DrawsFor(o, ex) : \E dlast \in LastDrawsFor(o) :
          LET r == DoExercise(Mem, o, objs[o].dgraph, ex, draws, dlast)
          IN /\ SetHeap(r.mem)
             /\ last' = [NoCall EXCEPT !.op = "do_exercise", !.tgt = o, !.ex = ex,
                                       !.ret = r.ret]
    /\ tries' = TriesAfter(o, ex)
    /\ UNCHANGED lastReward

\* o.advance_simulator(StudentAction(concept, OneHot(concept)))
SAdvance(o, concept) ==
    /\ Live(o)
    /\ \E draws \in DrawsFor(o, OneHot(concept)) : \E dlast \in LastDrawsFor(o) :
          LET r == AdvanceSimulator(Mem, o, concept, draws, dlast)
          IN /\ SetHeap(r.mem)
             /\ last' = [op |-> "advance_simulator", tgt |-> o, ex |-> OneHot(concept),
                         ret |-> r.ob, reward |-> r.reward, prev |-> lastReward[o]]
             /\ lastReward' = [lastReward EXCEPT ![o] = r.reward]
    /\ tries' = TriesAfter(o, OneHot(concept))

NextStudent ==
    \/ SReset(X) /\ UNCHANGED <<drv, pol, chunk, rest>>
    \/ SSetKnowledge0(X) /\ UNCHANGED <<drv, pol, chunk, rest>>
    \/ \E ex \in Exercises : SDoExercise(X, ex) /\ UNCHANGED <<drv, pol, chunk, rest>>
    \/ \E concept \in Concepts : SAdvance(X, concept) /\ UNCHANGED <<drv, pol, chunk, rest>>

SpecStudent == InitStudent /\ [][NextStudent]_vars

----------------------------------------------------------------------------
(* A simulator x and its copy c = x.copy(), both driven directly *)

CopyStep(o, op, m) ==
    /\ SetMem(m)
    /\ last' = [NoCall EXCEPT !.op = op, !.tgt = o]
    /\ UNCHANGED <<tries, lastReward, drv, pol, chunk, rest>>

\* c = x.copy()
CCopy == CopyStep(C, "copy", StudentExactSim_copy(Mem, X, C))

CReset(o) == Live(o) /\ CopyStep(o, "reset", Reset(Mem, o))

CSetKnowledge0(o) ==
    /\ Live(o)
    /\ last.op = "reset" /\ last.tgt = o
    /\ CopyStep(o, "set_knowledge0", SetKnowledge0(Mem, o))

CDoExercise(o, ex) ==
    /\ Live(o)
    /\ \E draws \in DrawsFor(o, ex) : \E dlast \in LastDrawsFor(o) :
          CopyStep(o, "do_exercise", DoExercise(Mem, o, objs[o].dgraph, ex, draws, dlast).mem)

CAdvance(o, concept) ==
    /\ Live(o)
    /\ \E draws \in DrawsFor(o, OneHot(concept)) : \E dlast \in LastDrawsFor(o) :
          CopyStep(o, "advance_simulator", AdvanceSimulator(Mem, o, concept, draws, dlast).mem)

NextCopy ==
    \/ CCopy
    \/ \E o \in {X, C} : CReset(o)
    \/ \E o \in {X, C} : CSetKnowledge0(o)
    \/ \E o \in {X, C} : \E ex \in Exercises : CDoExercise(o, ex)
    \/ \E o \in {X, C} : \E concept \in Concepts : CAdvance(o, concept)

SpecCopy == InitStudent /\ [][NextCopy]_vars

----------------------------------------------------------------------------
(* The trajectory drivers of mcts_tests.py *)

Drivers == {"test_student_exact_single", "test_student_exact_single_greedy",
            "test_dkt_single", "test_dkt_single_greedy", "dkt_test_policy"}

\* The drivers whose model is a copy of the true simulator.
ExactDrivers == {"test_student_exact_single", "test_student_exact_single_greedy"}

\* The drivers that commit their actions to the true simulator.
CommittingDrivers == Drivers \ {"dkt_test_policy"}

\* The drivers that look one step ahead only.
GreedyDrivers == {"test_student_exact_single_greedy", "test_dkt_single_greedy"}

\* A driver's set-up that leaves out reset().
DriverSetup_NoReset(m, d) ==
    LET m1 == Copy(m, "stud", "sim")
        m3 == SetKnowledge0(m1, "sim")
        m4 == StudentExactSim_init(m3, "sim", 1)
    IN IF d \in ExactDrivers THEN StudentExactSim_copy(m4, "sim", "model") ELSE m4

\* The set-up of a trajectory: student = stud.copy(); student.reset();
\* student.knowledge[0] = 1; sim = StudentExactSim(student, dgraph); and, where the
\* model is the exact one, model = sim.copy().
DriverSetup(m, d) ==
    LET m1 == Copy(m, "stud", "sim")
        m2 == Reset(m1, "sim")
        m3 == SetKnowledge0(m2, "sim")
        m4 == StudentExactSim_init(m3, "sim", 1)
    IN IF d \in ExactDrivers THEN StudentExactSim_copy(m4, "sim", "model") ELSE m4

\* The reward of one committed step under DENSE: the knowledge sum at this step
\* minus the knowledge sum at the step before.
DenseReward(prev, cur) == cur - prev

\* The reward of one committed step under SPARSE: the posttest sum at the
\* terminal step, nothing before it.
SparseReward(cur, step, horizon) == IF step = horizon THEN cur ELSE 0

\* A loop that also ends once every concept is mastered.
LoopDone_EarlyStop(m, k, h) == k >= h \/ NpSum(KnowledgeIn(m, "sim")) = NConcepts

\* for i in range(horizon): the loop is over after horizon iterations.
LoopDone(m, k, h) == k >= h

\* StudentExactState.perform / sample_state(real_world=False): a copy of the
\* state's model is advanced; the first of a chain copies the root's model.
ExactPerform(m, depth, concept, draws, dlast) ==
    LET src == IF depth = 0 THEN "model" ELSE "hyp"
    IN AdvanceSimulator(StudentExactSim_copy(m, src, "hyp"), "hyp", concept, draws, dlast).mem

\* sample_state(real_world=True) and the greedy policies' advance(), first half:
\* the true simulator is advanced.
RealWorldStep(m, concept, draws, dlast) ==
    AdvanceSimulator(m, "sim", concept, draws, dlast).mem

\* Second half: the new root's model has taken the same action, on its own draws.
ModelStep(m, d, concept, draws, dlast) ==
    IF d \in ExactDrivers
    THEN AdvanceSimulator(m, "model", concept, draws, dlast).mem
    ELSE m

\* The locals of a finished trajectory are gone.
DropTrajectory(m) ==
    [m EXCEPT !.objs = [o \in ObjNames |-> IF o = "stud" THEN @[o] ELSE NoObj]]

NoReward == [o \in ObjNames |-> -1]

\* A step of a driver: the memory, the driver's position, the reward last seen.
DriverStep(m, d, r) ==
    /\ SetMem(m)
    /\ drv' = d
    /\ lastReward' = r
    /\ UNCHANGED <<last, tries, pol, chunk, rest>>

\* The template student: Student(...) or Student2(n_concepts). A Student whose
\* p_get_ex_correct_if_concepts_learned is 1.0 answers the same whatever the last
\* draw of a call is, so the driver steps fix that draw.
InitDriver ==
    /\ \E kind \in {"Student", "Student2"} :
          LET m == Collect(IF kind = "Student"
                           THEN Student_init(EmptyMem, "stud",
                                    [p_trans_satisfied |-> 2, p_trans_not_satisfied |-> 0,
                                     p_get_ex_correct_if_concepts_learned |-> 4])
                           ELSE Student2_init(EmptyMem, "stud"))
          IN heap = m.heap /\ objs = m.objs
    /\ drv = NoDriver
    /\ pol = NoPolicy
    /\ chunk = NoChunk
    /\ RestIdle
    /\ last = NoCall
    /\ tries = [o \in ObjNames |-> NpZeros]
    /\ lastReward = [o \in ObjNames |-> -1]

\* The caller uses the template student before handing it to a driver.
TemplateExercise(concept) ==
    /\ drv.pc = "idle"
    /\ \E draws \in DrawsFor("stud", OneHot(concept)) :
          DriverStep(DoExercise(Mem, "stud", 1, OneHot(concept), draws, 0).mem,
                     [NoDriver EXCEPT !.step = "template"], NoReward)

\* A driver is called and sets its trajectory up.
Start(d, h) ==
    /\ drv.pc = "idle"
    /\ DriverStep(DriverSetup(Mem, d),
                  [pc |-> IF d \in CommittingDrivers /\ LoopDone(DriverSetup(Mem, d), 0, h)
                          THEN "done" ELSE "loop",
                   driver |-> d, horizon |-> h, i |-> 0, commits |-> 0,
                   step |-> "setup", depth |-> 0,
                   k0 |-> NpSum(KnowledgeIn(DriverSetup(Mem, d), "sim")),
                   dense |-> 0, sparse |-> 0], NoReward)

\* One perform() of the search (a rollout step, a one-step lookahead) for the
\* committing drivers, or of an open-loop trial for dkt_test_policy.
Perform(concept) ==
    /\ drv.pc = "loop"
    /\ drv.depth < (IF drv.driver \in GreedyDrivers THEN 1
                    ELSE IF drv.driver = "dkt_test_policy" THEN drv.horizon ELSE MaxDepth)
    /\ IF drv.driver \in ExactDrivers
       THEN \E draws \in DrawsFor("model", OneHot(concept)) :
               DriverStep(ExactPerform(Mem, drv.depth, concept, draws, 0),
                          [drv EXCEPT !.step = "perform", !.depth = @ + 1], lastReward)
       ELSE DriverStep(Mem, [drv EXCEPT !.step = "perform", !.depth = @ + 1], lastReward)

\* The next rollout, lookahead or trial starts from the root again.
EndRollout ==
    /\ drv.pc = "loop"
    /\ drv.depth > 0
    /\ DriverStep([Mem EXCEPT !.objs["hyp"] = NoObj],
                  [drv EXCEPT !.step = "end_rollout", !.depth = 0], lastReward)

\* The action chosen is committed to the true simulator; the loop goes on or ends.
Commit(concept) ==
    /\ drv.pc = "loop"
    /\ drv.driver \in CommittingDrivers
    /\ \E draws \in DrawsFor("sim", OneHot(concept)) :
       \E m1 \in {RealWorldStep(Mem, concept, draws, 0)} :
       \E mdraws \in IF drv.driver \in ExactDrivers
                      THEN DrawsFor("sim", OneHot(concept)) ELSE {draws} :
       \E m \in {ModelStep(m1, drv.driver, concept, mdraws, 0)} :
          DriverStep([m EXCEPT !.objs["hyp"] = NoObj],
                     [drv EXCEPT !.step = "commit", !.depth = 0,
                                 !.i = @ + 1, !.commits = @ + 1,
                                 !.dense = @ + DenseReward(NpSum(Knowledge("sim")),
                                                           NpSum(KnowledgeIn(m1, "sim"))),
                                 !.sparse = @ + SparseReward(NpSum(KnowledgeIn(m1, "sim")),
                                                             drv.i + 1, drv.horizon),
                                 !.pc = IF LoopDone(m, drv.i + 1, drv.horizon)
                                        THEN "done" ELSE "loop"],
                     [lastReward EXCEPT !["sim"] =
                         AdvanceSimulator(Mem, "sim", concept, draws, 0).reward])

\* dkt_test_policy has run its trials.
PolicyDone ==
    /\ drv.pc = "loop"
    /\ drv.driver = "dkt_test_policy"
    /\ drv.depth = drv.horizon
    /\ DriverStep(Mem, [drv EXCEPT !.step = "policy_done", !.pc = "done"], lastReward)

\* The driver returns; its locals are dropped.
Return ==
    /\ drv.pc = "done"
    /\ DriverStep(DropTrajectory(Mem), NoDriver, NoReward)

NextDriver ==
    \/ \E concept \in {0, 1} : TemplateExercise(concept)
    \/ \E d \in Drivers : \E h \in Horizons : Start(d, h)
    \/ \E concept \in Concepts : Perform(concept)
    \/ EndRollout
    \/ \E concept \in Concepts : Commit(concept)
    \/ PolicyDone
    \/ Return

SpecDriver == InitDriver /\ [][NextDriver]_vars

\* A search and a loop iteration end: every committed step is eventually taken.
\* The steps of the drivers alone, on a template fresh from its constructor.
NextTrajectory ==
    \/ \E d \in Drivers : \E h \in Horizons : Start(d, h)
    \/ \E concept \in Concepts : Perform(concept)
    \/ EndRollout
    \/ \E concept \in Concepts : Commit(concept)
    \/ PolicyDone
    \/ Return

FairDriver ==
    /\ InitDriver
    /\ [][NextTrajectory]_vars
    /\ WF_vars(\E concept \in Concepts : Commit(concept))

----------------------------------------------------------------------------
(* Open-loop policies on a Student2, as dkt_test_policy lists them *)

\* opt_policies
OptPolicies == {<<1, 1, 2, 2, 3, 3>>, <<1, 2, 1, 2, 3, 3>>,
                <<2, 1, 2, 1, 3, 3>>, <<2, 2, 1, 1, 3, 3>>}

AllPolicies == [1..PolicyHorizon -> Concepts]

\* An entry of a policy read as a concept counted from one.
ActionConcept_OneIndexed(a) == a - 1

\* all_actions[pol[i]]: an entry of a policy is the index of the action, and the
\* actions are one per concept, in the order of the concepts.
ActionConcept(a) == a

\* student2.copy(); reset(); knowledge[0] = 1; StudentExactSim(student, dgraph)
InitPolicy ==
    /\ LET m == Collect(DriverSetup(Student2_init(EmptyMem, "stud"), "dkt_test_policy"))
       IN heap = m.heap /\ objs = m.objs
    /\ pol \in [seq : AllPolicies, i : {0}, trial : {1}]
    /\ drv = NoDriver
    /\ chunk = NoChunk
    /\ RestIdle
    /\ last = NoCall
    /\ tries = [o \in ObjNames |-> NpZeros]
    /\ lastReward = [o \in ObjNames |-> -1]

\* The next action of the policy is given to the student through do_exercise.
PolicyStep ==
    /\ pol.i < PolicyHorizon
    /\ SetHeap(DoExercise(Mem, "sim", objs["sim"].dgraph,
                          OneHot(ActionConcept(pol.seq[pol.i + 1])), Vec(0), 0).mem)
    /\ pol' = [pol EXCEPT !.i = @ + 1]
    /\ UNCHANGED <<last, tries, lastReward, drv, chunk, rest>>

\* The next trial of the same policy starts from a student set up anew.
NextTrial ==
    /\ pol.i = PolicyHorizon
    /\ pol.trial < MaxTrials
    /\ SetMem(SetKnowledge0(Reset(Mem, "sim"), "sim"))
    /\ pol' = [pol EXCEPT !.i = 0, !.trial = @ + 1]
    /\ UNCHANGED <<last, tries, lastReward, drv, chunk, rest>>

NextPolicy == PolicyStep \/ NextTrial

SpecPolicy == InitPolicy /\ [][NextPolicy]_vars

----------------------------------------------------------------------------
(* test_dkt: trajectories run by parallel workers, their sums reduced.     *)
(* A posttest score np.mean(k) is counted in units of 1 / n_concepts, a    *)
(* q value in units of a fixed step, so that all sums are integers.        *)

\* Knowledge a trajectory may end with: nothing learned beyond concept 0, the
\* two children of the root learned, everything learned.
FinalKnowledge == {k \in BinaryVectors : k[0] = 1 /\ k[1] = k[2] /\ k[3] <= k[1]}

\* The best q values a trajectory may report.
QValues == {0, 3}

\* The posttest of a student: reward = np.sum(self.student.knowledge), in
\* whole units.
PosttestScore(k) == NpSum(k)

\* np.mean(k), in units of 1 / n_concepts
NpMean(k) == NpSum(k)

\* A worker that keeps the latest value instead of the sum.
ChunkAccumulate_Overwrite(acc, x) == x

\* acc += np.mean(k); best_q += best_q_value
ChunkAccumulate(acc, x) == acc + x

RECURSIVE SumOver(_, _, _)
\* np.sum(accs, axis=0), column col of the first n rows
SumOver(accs, col, n) == IF n = 0 THEN 0 ELSE accs[n][col] + SumOver(accs, col, n - 1)

\* results = np.sum(accs, axis=0) / (n_jobs * traj_per_job), kept as numerators
\* and the denominator
Reduction(accs, n_jobs, traj_per_job) ==
    [acc |-> SumOver(accs, 1, n_jobs), best_q |-> SumOver(accs, 2, n_jobs),
     den |-> n_jobs * traj_per_job]

Workers == 1..chunk.n_jobs

InitChunk ==
    /\ heap = EmptyMem.heap /\ objs = EmptyMem.objs
    /\ drv = NoDriver
    /\ pol = NoPolicy
    /\ chunk = NoChunk
    /\ RestIdle
    /\ last = NoCall
    /\ tries = [o \in ObjNames |-> NpZeros]
    /\ lastReward = [o \in ObjNames |-> -1]

ChunkStep(c) ==
    /\ chunk' = c
    /\ UNCHANGED <<heap, objs, last, tries, lastReward, drv, pol, rest>>

\* test_dkt is called: n_jobs workers, traj_per_job = n_trajectories // n_jobs each.
StartJobs(n_jobs, n_trajectories) ==
    /\ chunk.pc = "idle"
    /\ n_trajectories \div n_jobs >= 1
    /\ ChunkStep([NoChunk EXCEPT !.pc = "running",
                                 !.n_trajectories = n_trajectories,
                                 !.n_jobs = n_jobs,
                                 !.traj_per_job = n_trajectories \div n_jobs,
                                 !.ran = [w \in 1..n_jobs |-> 0],
                                 !.acc = [w \in 1..n_jobs |-> 0],
                                 !.best_q = [w \in 1..n_jobs |-> 0],
                                 !.accs = [w \in 1..n_jobs |-> <<>>]])

\* One iteration of the loop of test_dkt_chunk in worker w: a trajectory ends
\* with knowledge k and best q value q.
RunTrajectory(w, k, q) ==
    /\ chunk.pc = "running"
    /\ w \in Workers
    /\ chunk.ran[w] < chunk.traj_per_job
    /\ ChunkStep([chunk EXCEPT !.ran[w] = @ + 1,
                               !.acc[w] = ChunkAccumulate(@, NpMean(k)),
                               !.best_q[w] = ChunkAccumulate(@, q),
                               !.scores = @ + NpMean(k),
                               !.posttests = @ + PosttestScore(k),
                               !.qs = @ + q,
                               !.executed = @ + 1])

\* Worker w returns acc, best_q; its pair takes the worker's place in accs.
WorkerReturn(w) ==
    /\ chunk.pc = "running"
    /\ w \in Workers
    /\ chunk.ran[w] = chunk.traj_per_job
    /\ chunk.accs[w] = <<>>
    /\ ChunkStep([chunk EXCEPT !.accs[w] = <<chunk.acc[w], chunk.best_q[w]>>,
                               !.finished = Append(@, w)])

\* All workers have returned: the sums are reduced.
Reduce ==
    /\ chunk.pc = "running"
    /\ \A w \in Workers : chunk.accs[w] # <<>>
    /\ ChunkStep([chunk EXCEPT !.pc = "reduced",
                               !.results = Reduction(chunk.accs, chunk.n_jobs,
                                                     chunk.traj_per_job)])

\* test_dkt returns avg_acc, avg_best_q.
ChunkReturn ==
    /\ chunk.pc = "reduced"
    /\ ChunkStep(NoChunk)

NextChunk ==
    \/ \E n_jobs \in 1..MaxJobs : \E n \in 1..MaxTrajectories : StartJobs(n_jobs, n)
    \/ \E w \in 1..MaxJobs : \E k \in FinalKnowledge : \E q \in QValues :
          RunTrajectory(w, k, q)
    \/ \E w \in 1..MaxJobs : WorkerReturn(w)
    \/ Reduce
    \/ ChunkReturn

SpecChunk == InitChunk /\ [][NextChunk]_vars

----------------------------------------------------------------------------
(* StudentAction as the key of a node's children *)

\* Everything but the training side at rest, no object in memory.
CoreIdle ==
    /\ heap = EmptyMem.heap /\ objs = EmptyMem.objs
    /\ drv = NoDriver
    /\ pol = NoPolicy
    /\ chunk = NoChunk
    /\ last = NoCall
    /\ tries = [o \in ObjNames |-> NpZeros]
    /\ lastReward = [o \in ObjNames |-> -1]

\* StudentAction.__init__
StudentAction(concept, conceptvec) == [concept |-> concept, conceptvec |-> conceptvec]

\* An equality that looks at the vector as well.
StudentAction_eq_Vec(a, other) ==
    a.concept = other.concept /\ a.conceptvec = other.conceptvec

\* StudentAction.__eq__
StudentAction_eq(a, other) == a.concept = other.concept

\* StudentAction.__hash__
StudentAction_hash(a) == a.concept

\* The actions: of every concept, built with one vector or another.
StudentActions ==
    {StudentAction(concept, v) : concept \in Concepts, v \in {OneHot(0), OneHot(1)}}

\* The number of children a node is expanded to.
MaxKeys == 2

\* The children a key may lead to.
ChildIds == {"child1", "child2"}

\* The entries of a dict that a key finds: same hash, and equal.
DictMatch(entries, key) ==
    {n \in 1..Len(entries) : /\ StudentAction_hash(entries[n].key) = StudentAction_hash(key)
                             /\ StudentAction_eq(entries[n].key, key)}

\* children[key], "KeyError" where no entry is found
DictGet(entries, key) ==
    IF DictMatch(entries, key) = {} THEN "KeyError"
    ELSE LET n == CHOOSE x \in DictMatch(entries, key) :
                      \A y \in DictMatch(entries, key) : x <= y
         IN entries[n].value

\* children[key] = value: the entry found takes the value and keeps its key,
\* a key that finds none is appended.
DictSet(entries, key, value) ==
    IF DictMatch(entries, key) = {} THEN Append(entries, [key |-> key, value |-> value])
    ELSE LET n == CHOOSE x \in DictMatch(entries, key) :
                      \A y \in DictMatch(entries, key) : x <= y
         IN [entries EXCEPT ![n].value = value]

InitAction ==
    /\ CoreIdle
    /\ children = [pc |-> "node", entries |-> <<>>,
                   key |-> StudentAction(0, OneHot(0)), got |-> "none"]
    /\ train = Idle /\ memo = Idle /\ stag = Idle /\ cache = Idle

\* The search expands the node: a child is stored under an action.
SetItem(a, child) ==
    /\ Len(DictSet(children.entries, a, child)) <= MaxKeys
    /\ children' = [children EXCEPT !.entries = DictSet(@, a, child),
                                    !.key = a, !.got = "none"]
    /\ UNCHANGED <<core, train, memo, stag, cache>>

\* root.children[best_action]
GetItem(a) ==
    /\ children' = [children EXCEPT !.key = a, !.got = DictGet(children.entries, a)]
    /\ UNCHANGED <<core, train, memo, stag, cache>>

NextAction ==
    \/ \E a \in StudentActions : \E child \in ChildIds : SetItem(a, child)
    \/ \E a \in StudentActions : GetItem(a)

SpecAction == InitAction /\ [][NextAction]_vars

----------------------------------------------------------------------------
(* dkt_train_models and dkt_memoize_models of model_training.py, run by     *)
(* parallel workers, and the sequential dkt_train_models of mcts_tests.py.  *)
(* The checkpoint directory exists, is absent and can be created, or is     *)
(* absent and cannot be created ("denied").                                 *)

\* The largest num_runs.
MaxRuns == 10

\* The saved_epochs lists: well formed, repeating, negative first, decreasing.
SavedEpochLists == {<<0, 2>>, <<1>>, <<1, 1>>, <<-1, 0>>, <<2, 1>>}

\* The functions that hand their runs to Parallel.
ParallelFns == {"dkt_train_models", "dkt_memoize_models"}

\* The functions that train, and create the checkpoint directory first.
TrainFns == {"dkt_train_models", "mcts_tests.dkt_train_models"}

\* try: os.makedirs(params.dir_name)  except: pass
\* What makedirs raised, and the directory afterwards; whatever was raised is
\* dropped.
Makedirs(dir) ==
    CASE dir = "absent" -> [raised |-> "none", dir |-> "exists"]
      [] dir = "exists" -> [raised |-> "FileExistsError", dir |-> "exists"]
      [] OTHER -> [raised |-> "PermissionError", dir |-> dir]

\* n_jobs = min(5, params.num_runs)
NJobs(num_runs) == IF num_runs < 5 THEN num_runs ELSE 5

\* A partition that rounds down instead of asserting.
JobsAssert_Rounding(num_runs, n_jobs) == TRUE

\* assert(params.num_runs % n_jobs == 0)
JobsAssert(num_runs, n_jobs) == num_runs % n_jobs = 0

\* An assertion that lets a save point with nothing to train pass.
EpochsAssert_NonNegative(epochs_to_train) == epochs_to_train >= 0

\* assert epochs_to_train > 0
EpochsAssert(epochs_to_train) == epochs_to_train > 0

\* A range that includes its stop value.
ChunkStarts_Inclusive(num_runs, runs_per_job) ==
    {x \in 0..num_runs : x % runs_per_job = 0}

\* range(0, params.num_runs, runs_per_job): the first run of every chunk
ChunkStarts(num_runs, runs_per_job) ==
    {x \in 0..(num_runs - 1) : x % runs_per_job = 0}

\* A callback made once for a run and kept over its save points.
Tstates_Kept(r, ep, trained, epochs_to_train) ==
    [e \in 1..(trained + epochs_to_train) |-> [r |-> r, ep |-> ep, epoch |-> e]]

\* ecall.tstates at a save point: ecall = ExtractCallback() is new, and each of
\* the epochs_to_train calls of train(n_epoch=1) begins one epoch, which
\* appends one list of batch states. An entry stands for the losses of one
\* epoch: the run, the save point, and which epoch of the run's model it was.
Tstates(r, ep, trained, epochs_to_train) ==
    [e \in 1..epochs_to_train |-> [r |-> r, ep |-> ep, epoch |-> trained + e]]

\* A worker at the start of its chunk of runs.
NewWorker(startix, chunk_num_runs) ==
    [startix |-> startix, chunk_num_runs |-> chunk_num_runs, offset |-> 0, ix |-> 0,
     epochs_trained |-> 0, trained |-> 0, saved |-> <<>>, writes |-> <<>>,
     train_losses |-> [o \in 1..chunk_num_runs |-> <<>>],
     error |-> "none",
     status |-> IF chunk_num_runs = 0 THEN "done" ELSE "running"]

\* The workers of a call: one per chunk, in the order of their first runs.
NewWorkers(num_runs, runs_per_job) ==
    [n \in 1..Cardinality(ChunkStarts(num_runs, runs_per_job)) |->
        NewWorker((n - 1) * runs_per_job, runs_per_job)]

InitTrain ==
    /\ CoreIdle
    /\ children = Idle /\ memo = Idle /\ stag = Idle /\ cache = Idle
    /\ \E dir \in {"absent", "exists", "denied"} :
          train = [pc |-> "idle", dir |-> dir, fn |-> "none", num_runs |-> 0,
                   saved_epochs |-> <<>>, makedirs |-> "none", n_jobs |-> 0,
                   workers |-> <<>>, files |-> {}, tloss |-> <<>>, error |-> "none"]

TrainStep(t) ==
    /\ train' = t
    /\ UNCHANGED <<core, children, memo, stag, cache>>

\* The function is called: the directory is created where the function trains,
\* the runs are divided, the workers are started.
CallTrain(fn, num_runs, saved_epochs) ==
    /\ train.pc = "idle"
    /\ LET made == IF fn \in TrainFns THEN Makedirs(train.dir)
                   ELSE [raised |-> "none", dir |-> train.dir]
           n_jobs == IF fn \in ParallelFns THEN NJobs(num_runs) ELSE 1
           t == [train EXCEPT !.fn = fn, !.num_runs = num_runs,
                              !.saved_epochs = saved_epochs,
                              !.makedirs = made.raised, !.dir = made.dir,
                              !.n_jobs = n_jobs]
       IN IF fn \notin ParallelFns
          THEN TrainStep([t EXCEPT !.pc = "running",
                                   !.workers = <<NewWorker(0, num_runs)>>])
          ELSE IF n_jobs = 0
          THEN TrainStep([t EXCEPT !.pc = "failed", !.error = "ZeroDivisionError"])
          ELSE IF ~JobsAssert(num_runs, n_jobs)
          THEN TrainStep([t EXCEPT !.pc = "failed", !.error = "AssertionError"])
          ELSE TrainStep([t EXCEPT !.pc = "running",
                                   !.workers = NewWorkers(num_runs, num_runs \div n_jobs)])

\* One model made before the loop over the runs and trained on through all of them.
Advance_OneModel(wk) ==
    IF wk.ix + 1 < Len(train.saved_epochs) THEN [wk EXCEPT !.ix = @ + 1]
    ELSE [wk EXCEPT !.ix = 0, !.offset = @ + 1, !.epochs_trained = 0,
                    !.saved = <<>>,
                    !.status = IF wk.offset + 1 = wk.chunk_num_runs THEN "done" ELSE @]

\* The worker's position after a save point is done: the next save point, the
\* next run with a new model, or the end of the chunk.
Advance(wk) ==
    IF wk.ix + 1 < Len(train.saved_epochs) THEN [wk EXCEPT !.ix = @ + 1]
    ELSE [wk EXCEPT !.ix = 0, !.offset = @ + 1, !.epochs_trained = 0, !.trained = 0,
                    !.saved = <<>>,
                    !.status = IF wk.offset + 1 = wk.chunk_num_runs THEN "done" ELSE @]

\* One save point of a run in worker w: the epochs up to it are trained and the
\* checkpoint is saved, or, in dkt_memoize_chunk, the checkpoint is memoized.
\* Nothing can be written into a directory that does not exist.
SavePoint(w) ==
    /\ train.pc = "running"
    /\ w \in 1..Len(train.workers)
    /\ train.workers[w].status = "running"
    /\ LET wk == train.workers[w]
           r == wk.startix + wk.offset
           ep == train.saved_epochs[wk.ix + 1]
           epochs_to_train == ep + 1 - wk.epochs_trained
       IN IF train.fn = "dkt_memoize_models"
          THEN IF train.dir # "exists"
               THEN TrainStep([train EXCEPT !.workers[w].status = "failed",
                                            !.workers[w].error = "IOError"])
               ELSE TrainStep([train EXCEPT !.files = @ \cup {<<"mem", r, ep>>},
                                            !.workers[w] = Advance(wk)])
          ELSE IF ~EpochsAssert(epochs_to_train)
          THEN TrainStep([train EXCEPT !.workers[w].status = "failed",
                                       !.workers[w].error = "AssertionError"])
          ELSE IF train.dir # "exists"
          THEN TrainStep([train EXCEPT !.workers[w].status = "failed",
                                       !.workers[w].error = "IOError",
                                       !.workers[w].trained = @ + epochs_to_train])
          ELSE TrainStep([train EXCEPT
                   !.files = @ \cup {<<"checkpoint", r, ep>>},
                   !.workers[w] = Advance([wk EXCEPT !.trained = @ + epochs_to_train,
                                                     !.saved = Append(@, wk.ix + 1),
                                                     !.writes = Append(@,
                                                         [r |-> r, offset |-> wk.offset,
                                                          ep |-> ep,
                                                          trained |-> wk.trained + epochs_to_train]),
                                                     !.train_losses[wk.offset + 1] =
                                                         @ \o Tstates(r, ep, wk.trained,
                                                                      epochs_to_train),
                                                     !.epochs_trained = ep + 1])])

\* What a chunk returns as train_losses: one list per offset, extended at
\* every save point done at that offset by one entry per epoch of the callback.
\* val_losses is built the same way.
ChunkLosses(wk) == wk.train_losses

\* for tloss, vloss in losses: train_losses.extend(tloss), over the first n chunks
\* in the order Parallel returns them, which is the order they were handed in.
RECURSIVE ExtendLosses(_, _)
ExtendLosses(workers, n) ==
    IF n = 0 THEN <<>> ELSE ExtendLosses(workers, n - 1) \o ChunkLosses(workers[n])

\* A caller that saves the statistics of the runs that were trained when a
\* worker fails.
Raise_Salvage(w) ==
    /\ train.pc = "running"
    /\ w \in 1..Len(train.workers)
    /\ train.workers[w].status = "failed"
    /\ TrainStep([train EXCEPT !.pc = "failed", !.error = train.workers[w].error,
                                !.files = @ \cup {<<"stats", 0, 0>>}])

\* A worker has failed: its error is raised in the caller.
Raise(w) ==
    /\ train.pc = "running"
    /\ w \in 1..Len(train.workers)
    /\ train.workers[w].status = "failed"
    /\ TrainStep([train EXCEPT !.pc = "failed", !.error = train.workers[w].error])

\* Every worker is done: the statistics are saved where the function trains.
Join ==
    /\ train.pc = "running"
    /\ \A w \in 1..Len(train.workers) : train.workers[w].status = "done"
    /\ IF train.fn \notin TrainFns THEN TrainStep([train EXCEPT !.pc = "returned"])
       ELSE IF train.dir # "exists"
       THEN TrainStep([train EXCEPT !.pc = "failed", !.error = "IOError"])
       ELSE TrainStep([train EXCEPT !.pc = "returned", !.files = @ \cup {<<"stats", 0, 0>>},
                                    !.tloss = ExtendLosses(train.workers,
                                                           Len(train.workers))])

NextTrain ==
    \/ \E fn \in ParallelFns \cup TrainFns : \E num_runs \in 0..MaxRuns :
       \E saved_epochs \in SavedEpochLists : CallTrain(fn, num_runs, saved_epochs)
    \/ \E w \in 1..5 : SavePoint(w)
    \/ \E w \in 1..5 : Raise(w)
    \/ Join

SpecTrain == InitTrain /\ [][NextTrain]_vars

----------------------------------------------------------------------------
(* dkt_multistep_single, up to the construction of its test student. The    *)
(* state is kept in the variable train.                                     *)

\* Student2.__init__(self, n_concepts): the parameters after self
Student2_init_arity == 1

InitMultistep ==
    /\ CoreIdle
    /\ children = Idle /\ memo = Idle /\ stag = Idle /\ cache = Idle
    /\ train = [pc |-> "idle", fn |-> "none", n_trajectories |-> 0, horizon |-> 0,
                use_mem |-> FALSE, checkpoints |-> <<>>, loaded |-> <<>>,
                student |-> "none", errors |-> <<>>, error |-> "none"]

\* dkt_multistep_single is called with checkpoints that can be loaded.
MultistepCall(n_trajectories, checkpoints, horizon, use_mem) ==
    /\ train.pc = "idle"
    /\ TrainStep([train EXCEPT !.pc = "load", !.fn = "dkt_multistep_single",
                               !.n_trajectories = n_trajectories, !.horizon = horizon,
                               !.use_mem = use_mem, !.checkpoints = checkpoints])

\* for chkpt in checkpoints: the model, or the memoization arrays, of the next
\* checkpoint are loaded and appended; after the last the ensemble is made.
MultistepLoad ==
    /\ train.pc = "load"
    /\ LET n == Len(train.loaded) + 1
       IN TrainStep([train EXCEPT
             !.loaded = Append(@, [kind |-> IF train.use_mem THEN "mem_arrays" ELSE "model",
                                   chkpt |-> train.checkpoints[n]]),
             !.pc = IF n = Len(train.checkpoints) THEN "student" ELSE "load"])

\* concept_tree is built and test_student = st.Student2(n_concepts, True) is
\* evaluated: a call with another number of arguments than __init__ takes
\* raises TypeError; otherwise errors = np.zeros((2, horizon+1)) and the
\* trajectories begin.
MultistepStudent(args) ==
    /\ train.pc = "student"
    /\ IF Len(args) # Student2_init_arity
       THEN TrainStep([train EXCEPT !.pc = "ended", !.error = "TypeError"])
       ELSE TrainStep([train EXCEPT !.pc = "trajectories", !.student = "Student2",
                                   !.errors = [p \in 0..1 |->
                                                 [t \in 0..train.horizon |-> 0]]])

NextMultistep ==
    \/ \E n_trajectories \in 1..MaxTrajectories : \E horizon \in Horizons :
       \E checkpoints \in {<<"r0">>, <<"r0", "r1">>} : \E use_mem \in BOOLEAN :
          MultistepCall(n_trajectories, checkpoints, horizon, use_mem)
    \/ MultistepLoad
    \/ MultistepStudent(<<NConcepts, TRUE>>)

SpecMultistep == InitMultistep /\ [][NextMultistep]_vars

----------------------------------------------------------------------------
(* dkt_multistep: one task per run and saved epoch, handed to Parallel, the *)
(* results assembled by run and epoch and pickled. The state is kept in the *)
(* variable train.                                                          *)

\* The largest num_runs of a dkt_multistep call.
MaxMultistepRuns == 2

\* worker_inputs: for r in range(num_runs): for ep in saved_epochs:
\* append(([r], ep, [checkpoint_path])); the path names the checkpoint, or the
\* memoization file, of run r at epoch ep.
WorkerInputs(num_runs, saved_epochs, use_mem) ==
    [ix \in 1..(num_runs * Len(saved_epochs)) |->
        LET r == (ix - 1) \div Len(saved_epochs)
            ep == saved_epochs[((ix - 1) % Len(saved_epochs)) + 1]
        IN [runs |-> <<r>>, ep |-> ep,
            checkpoints |-> <<[kind |-> IF use_mem THEN "mem" ELSE "checkpoint",
                               r |-> r, ep |-> ep]>>]]

\* What dkt_multistep_single gives for the checkpoints of a task: the TypeError
\* of its Student2 call, or the error array computed from those checkpoints.
MultistepSingle(checkpoints, args) ==
    IF Len(args) # Student2_init_arity
    THEN [error |-> "TypeError", of |-> <<>>]
    ELSE [error |-> "none", of |-> checkpoints]

\* ix = 0; for r: for ep: outdata[r].append(flat_output[ix]); ix += 1
Assemble(flat_output, num_runs, saved_epochs) ==
    [r \in 1..num_runs |->
        [j \in 1..Len(saved_epochs) |-> flat_output[(r - 1) * Len(saved_epochs) + j]]]

InitMultistepRuns ==
    /\ CoreIdle
    /\ children = Idle /\ memo = Idle /\ stag = Idle /\ cache = Idle
    /\ train = [pc |-> "idle", num_runs |-> 0, saved_epochs |-> <<>>, use_mem |-> FALSE,
                worker_inputs |-> <<>>, flat_output |-> <<>>, finished |-> <<>>,
                outdata |-> <<>>, pickled |-> FALSE, error |-> "none"]

\* dkt_multistep is called: the tasks are listed and handed to Parallel.
DktMultistep(num_runs, saved_epochs, use_mem) ==
    /\ train.pc = "idle"
    /\ LET worker_inputs == WorkerInputs(num_runs, saved_epochs, use_mem)
       IN TrainStep([train EXCEPT !.pc = "parallel", !.num_runs = num_runs,
                                  !.saved_epochs = saved_epochs, !.use_mem = use_mem,
                                  !.worker_inputs = worker_inputs,
                                  !.flat_output = [ix \in 1..Len(worker_inputs) |-> <<>>]])

\* The task ix ends, in whatever order: its result, or its error, takes the
\* place of the task in the output of Parallel.
MultistepTaskEnds(ix, args) ==
    /\ train.pc = "parallel"
    /\ ix \in 1..Len(train.worker_inputs)
    /\ train.flat_output[ix] = <<>>
    /\ TrainStep([train EXCEPT
          !.flat_output[ix] = MultistepSingle(train.worker_inputs[ix].checkpoints, args),
          !.finished = Append(@, ix)])

\* Parallel raises the error of a task in dkt_multistep, which ends with it.
MultistepRaise(ix) ==
    /\ train.pc = "parallel"
    /\ ix \in 1..Len(train.worker_inputs)
    /\ train.flat_output[ix] # <<>>
    /\ train.flat_output[ix].error # "none"
    /\ TrainStep([train EXCEPT !.pc = "failed", !.error = train.flat_output[ix].error])

\* Every task has ended without error: outdata is assembled and pickled.
MultistepPickle ==
    /\ train.pc = "parallel"
    /\ \A ix \in 1..Len(train.worker_inputs) :
          train.flat_output[ix] # <<>> /\ train.flat_output[ix].error = "none"
    /\ TrainStep([train EXCEPT
          !.pc = "returned", !.pickled = TRUE,
          !.outdata = Assemble(train.flat_output, train.num_runs, train.saved_epochs)])

NextMultistepRuns ==
    \/ \E num_runs \in 0..MaxMultistepRuns : \E saved_epochs \in {<<>>, <<0>>, <<0, 2>>} :
       \E use_mem \in BOOLEAN : DktMultistep(num_runs, saved_epochs, use_mem)
    \/ \E ix \in 1..(2 * MaxMultistepRuns) : MultistepTaskEnds(ix, <<NConcepts, TRUE>>)
    \/ \E ix \in 1..(2 * MaxMultistepRuns) : MultistepRaise(ix)
    \/ MultistepPickle

SpecMultistepRuns == InitMultistepRuns /\ [][NextMultistepRuns]_vars

----------------------------------------------------------------------------
(* dkt_memoize_single and dkt_memoize_single_recurse: the recursion as a    *)
(* stack of frames, each with its place in the two loops. A row of a        *)
(* memoization array holds the histories whose prediction was written to it.*)

\* The largest horizon memoized.
MaxMemHorizon == 2

\* An encoding that adds the observation to the action.
ActionObEncode_Sum(n_concepts, action, ob) == action + ob

\* action_ob_encode(n_concepts, action, observation)
ActionObEncode(n_concepts, action, ob) == action * 2 + ob

\* history_ix_append(n_concepts, history_ix, digit)
HistoryIxAppend(n_concepts, history_ix, digit) == history_ix * (2 * n_concepts) + digit

\* A table size that grows with the length instead of by a factor of base.
NumHistories_Linear(base, length) == base * length

\* num_histories(base, length)
NumHistories(base, length) == base ^ length

\* A recursion that stops one level early.
RecurseFinished_Early(step, horizon) == step >= horizon

\* if step > horizon: return
RecurseFinished(step, horizon) == step > horizon

\* The wrappers (RnnStudentSim) alive, each by the sequence it holds: seqs[d] is
\* the sequence of wrapper d. A copy that shares the sequence of its source.
DktCopy_Alias(seqs, d) == [seqs |-> seqs, dkt |-> d]

\* dkt.copy(): a new wrapper with a duplicate of the sequence.
DktCopy(seqs, d) == [seqs |-> Append(seqs, seqs[d]), dkt |-> Len(seqs) + 1]

\* dkt.advance_simulator(action, ob): the pair is appended to the sequence.
DktAdvance(seqs, d, action, ob) == [seqs EXCEPT ![d] = Append(@, <<action, ob>>)]

\* A frame of dkt_memoize_single_recurse at the start of its loops; dkt is the
\* wrapper it was handed, history the branches taken from the first call to it.
Frame(step, history_ix, history, dkt) ==
    [step |-> step, history_ix |-> history_ix, history |-> history, dkt |-> dkt,
     next_action |-> 0, next_ob |-> 0]

InitMemo ==
    /\ CoreIdle
    /\ children = Idle /\ train = Idle /\ stag = Idle /\ cache = Idle
    /\ memo = [pc |-> "idle", n_concepts |-> 0, horizon |-> 0, stack |-> <<>>,
               seqs |-> <<>>, mem_arrays |-> <<>>, error |-> "none"]

MemoStep(m) ==
    /\ memo' = m
    /\ UNCHANGED <<core, children, train, stag, cache>>

\* dkt_memoize_single up to the first call of the recursion: the arrays of
\* levels 0 .. horizon are allocated, nothing written.
MemoizeSingle(n_concepts, horizon) ==
    /\ memo.pc = "idle"
    /\ MemoStep([memo EXCEPT
           !.pc = "recurse", !.n_concepts = n_concepts, !.horizon = horizon,
           !.mem_arrays = [i \in 0..horizon |->
                             [row \in 0..(NumHistories(2 * n_concepts, i) - 1) |-> <<>>]],
           !.seqs = << <<>> >>,
           !.stack = <<Frame(1, 0, <<>>, 1)>>])

\* One iteration of the loops of the frame on top: the row of the next history
\* is written and the recursion is entered. A row outside the array is an
\* IndexError.
MemoizeBranch ==
    /\ memo.pc = "recurse"
    /\ memo.stack # <<>>
    /\ LET f == memo.stack[Len(memo.stack)]
           n == memo.n_concepts
           next_branch == ActionObEncode(n, f.next_action, f.next_ob)
           next_history_ix == HistoryIxAppend(n, f.history_ix, next_branch)
           next_history == Append(f.history, <<f.next_action, f.next_ob>>)
           copied == DktCopy(memo.seqs, f.dkt)
           next_dkt == copied.dkt
           seqs == DktAdvance(copied.seqs, next_dkt, f.next_action, f.next_ob)
           after == IF f.next_ob = 0 THEN [f EXCEPT !.next_ob = 1]
                    ELSE [f EXCEPT !.next_ob = 0, !.next_action = @ + 1]
       IN /\ ~RecurseFinished(f.step, memo.horizon)
          /\ f.next_action < n
          /\ IF f.step \notin DOMAIN memo.mem_arrays
                \/ next_history_ix \notin DOMAIN memo.mem_arrays[f.step]
             THEN MemoStep([memo EXCEPT !.pc = "failed", !.error = "IndexError"])
             ELSE MemoStep([memo EXCEPT
                     !.seqs = seqs,
                     !.mem_arrays[f.step][next_history_ix] = Append(@, seqs[next_dkt]),
                     !.stack = Append([@ EXCEPT ![Len(@)] = after],
                                      Frame(f.step + 1, next_history_ix, next_history,
                                            next_dkt))])

\* The frame on top returns: past the horizon, or its loops are over; the
\* wrappers no frame holds any more are dropped, but for the first one, which
\* dkt_memoize_single holds. When the first call returns the arrays are written
\* to the file.
MemoizeReturn ==
    /\ memo.pc = "recurse"
    /\ memo.stack # <<>>
    /\ LET f == memo.stack[Len(memo.stack)]
           stack == SubSeq(memo.stack, 1, Len(memo.stack) - 1)
           held == {1} \cup {stack[j].dkt : j \in 1..Len(stack)}
       IN /\ RecurseFinished(f.step, memo.horizon) \/ f.next_action >= memo.n_concepts
          /\ MemoStep([memo EXCEPT !.stack = stack,
                                   !.seqs = SubSeq(@, 1, CHOOSE d \in held :
                                                            \A e \in held : e <= d),
                                   !.pc = IF Len(memo.stack) = 1 THEN "saved" ELSE @])

NextMemo ==
    \/ \E n_concepts \in {2, NConcepts} : \E horizon \in 1..MaxMemHorizon :
          MemoizeSingle(n_concepts, horizon)
    \/ MemoizeBranch
    \/ MemoizeReturn

SpecMemo == InitMemo /\ [][NextMemo]_vars

----------------------------------------------------------------------------
(* test_dkt_early_stopping (the controller) and staggered_dkt_training (the *)
(* training process): an Event sig_start and a Pipe from the trainer to the *)
(* controller. t is the trainer's record, c the controller's.               *)

\* The largest number of repetitions.
MaxReps == 2

\* A trainer that leaves the event set.
EventClear_Skip(event) == event

\* sig_start.clear()
EventClear(event) == FALSE

\* A last increment shorter than epochs_per_iter left out.
Increments_Floor(total_epochs, epochs_per_iter) == total_epochs \div epochs_per_iter

\* p_ch.recv() when every handle of the sending end is closed and nothing is
\* left to read, which raises EOFError.
RecvEOF_ParentClosed(tpc) == tpc \in {"crashed", "exited"}

\* test_dkt_early_stopping keeps c_ch, its own handle of the sending end, open
\* to the end: p_ch.recv() never sees the end of the stream, whatever the state
\* of the training process.
RecvEOF(tpc) == FALSE

\* xrange(0, total_epochs, epochs_per_iter): the number of increments of a rep
Increments(total_epochs, epochs_per_iter) ==
    (total_epochs + epochs_per_iter - 1) \div epochs_per_iter

InitStag ==
    /\ CoreIdle
    /\ children = Idle /\ train = Idle /\ memo = Idle /\ cache = Idle
    /\ stag = [pc |-> "idle", reps |-> 0, total_epochs |-> 0, epochs_per_iter |-> 0,
               iters |-> 0, sig_start |-> FALSE, pipe |-> <<>>,
               t |-> [pc |-> "none", r |-> 0, ep |-> 0, trains |-> 0, crashed_at |-> "none"],
               c |-> [pc |-> "none", r |-> 0, ep |-> 0, sets |-> 0, recvs |-> 0,
                      ret_val |-> 0, evals |-> 0]]

StagStep(g) ==
    /\ stag' = g
    /\ UNCHANGED <<core, children, train, memo, cache>>

\* test_dkt_early_stopping up to training_process.start().
StartTraining(reps, total_epochs, epochs_per_iter) ==
    /\ stag.pc = "idle"
    /\ StagStep([stag EXCEPT !.pc = "started", !.reps = reps,
                             !.total_epochs = total_epochs,
                             !.epochs_per_iter = epochs_per_iter,
                             !.iters = Increments(total_epochs, epochs_per_iter),
                             !.t.pc = "load", !.c.pc = "set"])

\* Trainer: the data is loaded, the model of the first rep or of the next is
\* built; after the last rep the process ends.
TrainerNewModel ==
    /\ stag.t.pc \in {"load", "next_rep"}
    /\ StagStep([stag EXCEPT !.t.pc = IF stag.t.r < stag.reps THEN "wait" ELSE "exited",
                             !.t.ep = 0])

\* Trainer: sig_start.wait() returns once the event is set.
TrainerWait ==
    /\ stag.t.pc = "wait"
    /\ stag.sig_start
    /\ StagStep([stag EXCEPT !.t.pc = "clear"])

\* Trainer: sig_start.clear()
TrainerClear ==
    /\ stag.t.pc = "clear"
    /\ StagStep([stag EXCEPT !.t.pc = "train", !.sig_start = EventClear(@)])

\* Trainer: dmodel.train(...) begins, the next increment.
TrainerTrain ==
    /\ stag.t.pc = "train"
    /\ StagStep([stag EXCEPT !.t.pc = "training", !.t.trains = @ + 1])

\* Trainer: training ends and the losses of the increment are sent.
TrainerSend ==
    /\ stag.t.pc = "training"
    /\ StagStep([stag EXCEPT !.pipe = Append(@, stag.t.trains),
                             !.t.ep = @ + 1,
                             !.t.r = IF stag.t.ep + 1 = stag.iters THEN @ + 1 ELSE @,
                             !.t.pc = IF stag.t.ep + 1 = stag.iters THEN "next_rep" ELSE "wait"])

\* Controller: sig_start.set(), or, the loops over, on to join().
ControllerSet ==
    /\ stag.c.pc = "set"
    /\ IF stag.c.r < stag.reps
       THEN StagStep([stag EXCEPT !.sig_start = TRUE, !.c.sets = @ + 1, !.c.pc = "recv"])
       ELSE StagStep([stag EXCEPT !.c.pc = "join"])

\* Controller: ret_val = p_ch.recv(), which waits for a message.
ControllerRecv ==
    /\ stag.c.pc = "recv"
    /\ IF stag.pipe # <<>>
       THEN StagStep([stag EXCEPT !.pipe = Tail(@), !.c.ret_val = Head(stag.pipe),
                                  !.c.recvs = @ + 1, !.c.pc = "eval"])
       ELSE /\ RecvEOF(stag.t.pc)
            /\ StagStep([stag EXCEPT !.c.pc = "EOFError", !.pc = "failed"])

\* Controller: the two calls of test_dkt begin.
ControllerEval ==
    /\ stag.c.pc = "eval"
    /\ StagStep([stag EXCEPT !.c.pc = "evaluating", !.c.evals = @ + 1])

\* Controller: the evaluation is over, the loops go on.
ControllerNext ==
    /\ stag.c.pc = "evaluating"
    /\ StagStep([stag EXCEPT !.c.ep = IF @ + 1 = stag.iters THEN 0 ELSE @ + 1,
                             !.c.r = IF stag.c.ep + 1 = stag.iters THEN @ + 1 ELSE @,
                             !.c.pc = "set"])

\* Controller: training_process.join() returns when the trainer has ended.
ControllerJoin ==
    /\ stag.c.pc = "join"
    /\ stag.t.pc \in {"exited", "crashed"}
    /\ StagStep([stag EXCEPT !.c.pc = "saved", !.pc = "done"])

NextStag ==
    \/ \E reps \in 1..MaxReps : \E e \in {<<14, 14>>, <<4, 2>>, <<3, 2>>, <<3, 1>>} :
          StartTraining(reps, e[1], e[2])
    \/ TrainerNewModel
    \/ TrainerWait
    \/ TrainerClear
    \/ TrainerTrain
    \/ TrainerSend
    \/ ControllerSet
    \/ ControllerRecv
    \/ ControllerEval
    \/ ControllerNext
    \/ ControllerJoin

SpecStag == InitStag /\ [][NextStag]_vars

\* The steps of the training process and those of the controller.
TrainerNext ==
    TrainerNewModel \/ TrainerWait \/ TrainerClear \/ TrainerTrain \/ TrainerSend

ControllerStep ==
    ControllerSet \/ ControllerRecv \/ ControllerEval \/ ControllerNext \/ ControllerJoin

\* Both processes are scheduled, and every increment of training and every
\* evaluation comes to an end: a process that can take a step takes one.
FairStag == SpecStag /\ WF_vars(TrainerNext) /\ WF_vars(ControllerStep)

\* The training process dies of an exception or a signal, at any point of its
\* life; crashed_at keeps the point.
TrainerCrash ==
    /\ stag.t.pc \in {"load", "next_rep", "wait", "clear", "train", "training"}
    /\ StagStep([stag EXCEPT !.t.pc = "crashed", !.t.crashed_at = stag.t.pc])

NextStagCrash == NextStag \/ TrainerCrash

SpecStagCrash == InitStag /\ [][NextStagCrash]_vars

----------------------------------------------------------------------------
(* The dktcache of test_dkt, test_dkt_chunk and dkt_test_policy, under the  *)
(* callers that evaluate one checkpoint after another. A checkpoint is the  *)
(* pair <<r, ep>> of its file name, or <<-1, v>> for the model's default    *)
(* checkpoint after v training increments. An entry of a cache is tagged    *)
(* with the checkpoint of the model that computed it.                       *)

\* The workers of a call of test_dkt.
MaxCacheWorkers == 2

\* The histories a prediction is cached for.
CacheKeys == {1, 2}

\* A cache kept from one call to the next.
CacheFor_Reuse(caches) == IF caches = <<>> THEN 1 ELSE Len(caches)

\* dktcache = dktcache_manager.dict() / dktcache = dict(): the call's cache is
\* a new one.
CacheFor(caches) == Len(caches) + 1

\* The checkpoints a caller evaluates, in its order: every saved epoch of every
\* run, or, in test_dkt_early_stopping, twice the default checkpoint per rep.
CheckpointsOf(fn, num_runs, saved_epochs) ==
    IF fn = "test_dkt_early_stopping"
    THEN [n \in 1..(2 * num_runs) |-> <<-1, (n - 1) \div 2>>]
    ELSE [n \in 1..(num_runs * Len(saved_epochs)) |->
             <<(n - 1) \div Len(saved_epochs),
               saved_epochs[((n - 1) % Len(saved_epochs)) + 1]>>]

\* A call whose workers are each given a checkpoint of their own.
WorkerCheckpoint_PerWorker(chkpts, i, w) == <<chkpts[i][1], chkpts[i][2] + w - 1>>

\* delayed(test_dkt_chunk)(..., chkpt, ...) for _ in range(n_jobs): every worker
\* of a call is given the call's checkpoint.
WorkerCheckpoint(chkpts, i, w) == chkpts[i]

InitCache ==
    /\ CoreIdle
    /\ children = Idle /\ train = Idle /\ memo = Idle /\ stag = Idle
    /\ cache = [pc |-> "idle", fn |-> "none", chkpts |-> <<>>, i |-> 0, caches |-> <<>>,
                dktcache |-> 0, model |-> <<>>, pending |-> <<>>, stale |-> FALSE]

CacheStep(x) ==
    /\ cache' = x
    /\ UNCHANGED <<core, children, train, memo, stag>>

\* dkt_test_models_mcts, dkt_test_models_policy or test_dkt_early_stopping
\* is called.
StartTests(fn, num_runs, saved_epochs) ==
    /\ cache.pc = "idle"
    /\ CacheStep([cache EXCEPT !.pc = "loop", !.fn = fn, !.i = 1,
                               !.chkpts = CheckpointsOf(fn, num_runs, saved_epochs)])

\* The caller's next test_dkt or dkt_test_policy: the cache is made, no model
\* loaded yet; dkt_test_policy runs in the caller, test_dkt in its workers.
CallTest ==
    /\ cache.pc = "loop"
    /\ cache.i <= Len(cache.chkpts)
    /\ LET id == CacheFor(cache.caches)
       IN CacheStep([cache EXCEPT
             !.pc = "call", !.dktcache = id,
             !.caches = IF id > Len(@)
                        THEN Append(@, [users |-> {}, hit |-> FALSE, rewritten |-> FALSE,
                                        entries |-> [k \in CacheKeys |-> <<>>]])
                        ELSE @,
             !.model = [w \in 1..(IF cache.fn = "dkt_test_models_policy" THEN 1
                                  ELSE MaxCacheWorkers) |-> <<>>],
             !.pending = [w \in 1..(IF cache.fn = "dkt_test_models_policy" THEN 1
                                    ELSE MaxCacheWorkers) |-> 0]])

\* model.model.load(chkpt) in worker w
LoadModel(w) ==
    /\ cache.pc = "call"
    /\ w \in DOMAIN cache.model
    /\ cache.model[w] = <<>>
    /\ CacheStep([cache EXCEPT !.model[w] = WorkerCheckpoint(cache.chkpts, cache.i, w)])

\* A perform() of a DKTState in worker w at history key: the prediction is
\* taken from the cache, or is missing and the worker's model computes it.
CachePerform(w, key) ==
    /\ cache.pc = "call"
    /\ w \in DOMAIN cache.model
    /\ cache.model[w] # <<>>
    /\ cache.pending[w] = 0
    /\ LET e == cache.caches[cache.dktcache].entries[key]
       IN CacheStep([cache EXCEPT
             !.caches[cache.dktcache].users = @ \cup {cache.model[w]},
             !.caches[cache.dktcache].hit = @ \/ e # <<>>,
             !.pending[w] = IF e = <<>> THEN key ELSE 0,
             !.stale = @ \/ (e # <<>> /\ e # cache.model[w])])

\* The prediction worker w has computed is stored under its key, whether or
\* not another worker has stored one since the miss.
CacheStore(w) ==
    /\ cache.pc = "call"
    /\ w \in DOMAIN cache.pending
    /\ cache.pending[w] # 0
    /\ CacheStep([cache EXCEPT
          !.caches[cache.dktcache].entries[cache.pending[w]] = cache.model[w],
          !.caches[cache.dktcache].rewritten =
               @ \/ cache.caches[cache.dktcache].entries[cache.pending[w]] # <<>>,
          !.pending[w] = 0])

\* The call returns and the caller goes on.
ReturnTest ==
    /\ cache.pc = "call"
    /\ \A w \in DOMAIN cache.model : cache.model[w] # <<>> /\ cache.pending[w] = 0
    /\ CacheStep([cache EXCEPT !.pc = IF cache.i = Len(cache.chkpts) THEN "done" ELSE "loop",
                               !.i = @ + 1, !.model = <<>>, !.pending = <<>>,
                               !.dktcache = 0])

NextCache ==
    \/ \E fn \in {"dkt_test_models_mcts", "dkt_test_models_policy",
                   "test_dkt_early_stopping"} :
       \E num_runs \in 1..2 : \E saved_epochs \in {<<0>>, <<0, 1>>} :
          /\ Len(CheckpointsOf(fn, num_runs, saved_epochs)) <= 2
          /\ StartTests(fn, num_runs, saved_epochs)
    \/ CallTest
    \/ \E w \in 1..MaxCacheWorkers : LoadModel(w)
    \/ \E w \in 1..MaxCacheWorkers : \E key \in CacheKeys : CachePerform(w, key)
    \/ \E w \in 1..MaxCacheWorkers : CacheStore(w)
    \/ ReturnTest

SpecCache == InitCache /\ [][NextCache]_vars

----------------------------------------------------------------------------
(* Properties of the student simulators *)

IsStudent2(o) == objs[o].kind = "Student2"

\* The call that the step made tested concept c alone, on a Student2 whose
\* prerequisites for c were fulfilled.
FulfilledSingle(o, c) ==
    /\ last'.op \in CallOps /\ last'.tgt = o /\ last'.ex = OneHot(c)
    /\ IsStudent2(o)
    /\ FulfilledPrereqs(objs[o].dgraph, Knowledge(o), OneHot(c))

C3_NeverUnlearned ==
    [][\A o \in ObjNames :
          (last'.op \in CallOps /\ last'.tgt = o) =>
            /\ \A c \in Concepts : Knowledge(o)[c] = 1 => Knowledge(o)'[c] = 1
            /\ NpSum(Knowledge(o))' >= NpSum(Knowledge(o))
            /\ last'.op = "advance_simulator" => last'.reward >= lastReward[o]]_vars

\* Two successive advance_simulator calls returned a growing reward.
C3_Witness ==
    last.op = "advance_simulator" /\ last.prev >= 0 /\ last.reward > last.prev

\* C4: the reward of advance_simulator is the knowledge sum before the call's
\* do_exercise.
C4_RewardBeforeUpdate ==
    [][\A o \in ObjNames :
          (last'.op = "advance_simulator" /\ last'.tgt = o)
          => last'.reward = NpSum(Knowledge(o))]_vars

\* An advance_simulator call gained a concept that its reward does not count.
C4_Witness ==
    last.op = "advance_simulator" /\ last.reward < NpSum(Knowledge(last.tgt))

\* C5: c = x.copy() starts with x's knowledge and visited and the same dgraph
\* object, and afterwards no call on one of x and c changes the other.
C5_CopyIndependence ==
    [][/\ last'.op = "copy" =>
            /\ Knowledge(C)' = Knowledge(X) /\ Visited(C)' = Visited(X)
            /\ Knowledge(X)' = Knowledge(X) /\ Visited(X)' = Visited(X)
            /\ objs'[C].kind = objs[X].kind /\ objs'[C].p = objs[X].p
            /\ objs'[C].dgraph = objs[X].dgraph
       /\ \A o \in {X, C} : \A q \in {X, C} \ {o} :
            (last'.op # "copy" /\ last'.tgt = o /\ Live(q))
            => (Knowledge(q)' = Knowledge(q) /\ Visited(q)' = Visited(q))]_vars

\* The copy has been advanced away from the original.
C5_Witness ==
    /\ Live(C) /\ last.tgt = C /\ last.op = "advance_simulator"
    /\ Knowledge(C) # Knowledge(X)

\* C23: two simulators on Student2 students with equal knowledge and visited
\* and the same dgraph answer every action with the same observation and the
\* same reward and are left with equal knowledge and visited, whatever random
\* numbers are drawn meanwhile; so equal action sequences give equal
\* observation and reward sequences and equal final states.
C23_Student2Deterministic ==
    (/\ Live(X) /\ Live(C)
     /\ IsStudent2(X) /\ IsStudent2(C)
     /\ Knowledge(X) = Knowledge(C) /\ Visited(X) = Visited(C)
     /\ objs[X].dgraph = objs[C].dgraph)
    => \A concept \in Concepts : \A d1, d2 \in {Vec(v) : v \in DrawValues} :
       \A l1, l2 \in DrawValues :
          LET a == AdvanceSimulator(Mem, X, concept, d1, l1)
              b == AdvanceSimulator(Mem, C, concept, d2, l2)
          IN /\ a.ob = b.ob
             /\ a.reward = b.reward
             /\ KnowledgeIn(a.mem, X) = KnowledgeIn(b.mem, C)
             /\ VisitedIn(a.mem, X) = VisitedIn(b.mem, C)

\* Both simulators have been advanced since the copy was made, the copy last,
\* to the same state with two concepts mastered.
C23_Witness ==
    /\ Live(X) /\ Live(C) /\ IsStudent2(X) /\ IsStudent2(C)
    /\ last.op = "advance_simulator" /\ last.tgt = C
    /\ Knowledge(X) = Knowledge(C) /\ Visited(X) = Visited(C)
    /\ NpSum(Knowledge(X)) >= 2
    /\ objs[X].knowledge # objs[C].knowledge

\* C24: a do_exercise call on a probabilistic Student whose prerequisites for the
\* exercise are fulfilled returns 1 only if every concept the exercise tests is
\* mastered in the state after the call, whatever the draws.
C24_CorrectImpliesMastered ==
    [][\A o \in ObjNames :
          (/\ last'.op = "do_exercise" /\ last'.tgt = o
           /\ objs[o].kind = "Student"
           /\ FulfilledPrereqs(objs[o].dgraph, Knowledge(o), last'.ex)
           /\ last'.ret = 1)
          => \A c \in Concepts : last'.ex[c] = 1 => Knowledge(o)'[c] = 1]_vars

\* A Student has just answered an exercise on the two children of the root
\* correctly; the root, their prerequisite, is mastered and the call left it alone.
C24_Witness ==
    /\ last.op = "do_exercise" /\ objs[last.tgt].kind = "Student"
    /\ last.ex = [c \in Concepts |-> IF c \in {1, 2} THEN 1 ELSE 0]
    /\ last.ret = 1
    /\ Knowledge(last.tgt)[0] = 1
    /\ Knowledge(last.tgt)[1] = 1 /\ Knowledge(last.tgt)[2] = 1

----------------------------------------------------------------------------
(* Properties of the trajectory drivers *)

\* C6: whatever the state of the template student handed in, the true student of
\* a trajectory has knowledge [1, 0, ..., 0] and no visit recorded until the first
\* action is committed, and no step of a driver changes the template.
C6_TrajectoryStart ==
    /\ []((drv.pc = "loop" /\ drv.commits = 0)
            => (Knowledge("sim") = OneHot(0) /\ Visited("sim") = NpZeros))
    /\ [][drv'.step # "template"
            => (Knowledge("stud")' = Knowledge("stud") /\ Visited("stud")' = Visited("stud"))]_vars

\* A trajectory is about to take its first action on a fresh student although the
\* template handed in had mastered concepts 0 and 1.
C6_Witness ==
    /\ drv.pc = "loop" /\ drv.commits = 0 /\ drv.step = "perform"
    /\ Knowledge("stud")[0] = 1 /\ Knowledge("stud")[1] = 1
    /\ Knowledge("sim") = OneHot(0)

\* C7: a trajectory of an MCTS or greedy driver commits one real step per loop
\* iteration, is over only when exactly horizon steps are committed, mastery or
\* not, and is over eventually.
C7_HorizonSteps ==
    /\ [](drv.driver \in CommittingDrivers
            => /\ drv.commits = drv.i
               /\ drv.pc = "loop" => drv.commits < drv.horizon
               /\ drv.pc = "done" => drv.commits = drv.horizon)
    /\ (drv.pc = "loop" /\ drv.driver \in CommittingDrivers) ~> (drv.pc = "done")

\* A trajectory is over after horizon steps, the last of them committed when the
\* student had already mastered every concept.
C7_Witness ==
    /\ drv.pc = "done" /\ drv.driver \in CommittingDrivers
    /\ drv.commits = drv.horizon
    /\ lastReward["sim"] = NConcepts

\* C8: while a driver is in its loop, only a committed real-world step changes
\* the true student; the perform() chains of searches, lookaheads and open-loop
\* trials leave its knowledge and visits as they are.
C8_TrueStateOnlyAtCommit ==
    [][(drv.pc = "loop" /\ drv'.step # "commit")
         => (Knowledge("sim")' = Knowledge("sim") /\ Visited("sim")' = Visited("sim"))]_vars

\* A chain of two hypothetical steps has taken the model's copy away from the
\* true student, after a first committed step.
C8_Witness ==
    /\ drv.pc = "loop" /\ drv.step = "perform" /\ drv.depth = 2
    /\ drv.driver \in ExactDrivers /\ drv.commits >= 1
    /\ Knowledge("hyp") # Knowledge("sim")

\* The original statement of C12: at the end of a trajectory the SPARSE total
\* equals the DENSE total.
C12_SparseEqualsDense ==
    (drv.pc = "done" /\ drv.driver \in CommittingDrivers)
    => drv.sparse = drv.dense

\* C12: at the end of a driver's trajectory of knowledge sums k0 .. kH the
\* SPARSE total is kH, the DENSE total is kH - k0, and k0 = 1 since concept 0
\* is mastered beforehand: the SPARSE total is the DENSE total plus one.
C12_SparseDenseOffset ==
    (drv.pc = "done" /\ drv.driver \in CommittingDrivers)
    => /\ drv.sparse = NpSum(Knowledge("sim"))
       /\ drv.dense = drv.sparse - drv.k0
       /\ drv.k0 = 1

\* A trajectory of the longest horizon in which something was learned.
C12_Witness ==
    /\ drv.pc = "done" /\ drv.driver = "test_student_exact_single"
    /\ drv.horizon = MaxHorizon /\ drv.commits = MaxHorizon
    /\ drv.sparse >= 3 /\ drv.dense = drv.sparse - 1

----------------------------------------------------------------------------
(* Properties of the open-loop policies *)

\* C9: on the default tree of four concepts, a Student2 started at knowledge
\* [1, 0, 0, 0] with no visit recorded has mastered all four concepts (posttest
\* 4) at the end of each of the four listed sequences, on every trial.
C9_OptimalPolicies ==
    (pol.seq \in OptPolicies /\ pol.i = PolicyHorizon)
    => (NpSum(Knowledge("sim")) = NConcepts /\ Knowledge("sim") = Vec(1))

\* The end of a second trial of the sequence [2, 1, 2, 1, 3, 3]: its student,
\* set up anew, has been given concepts 1, 2 and 3 and has mastered everything.
C9_Witness ==
    /\ pol.seq = <<2, 1, 2, 1, 3, 3>> /\ pol.i = PolicyHorizon /\ pol.trial = 2
    /\ Visited("sim") = [c \in Concepts |-> IF c = 0 THEN 0 ELSE 1]
    /\ Knowledge("sim") = Vec(1)

----------------------------------------------------------------------------
(* Properties of the parallel evaluation *)

\* C10: the pair test_dkt returns, the sums of the workers' (score sum, q sum)
\* pairs over the number of trajectories run, is the average of the scores and
\* of the q values taken directly over all trajectories run, whatever the
\* number of equal chunks and the order in which the workers finish.
C10_ChunkReduction ==
    chunk.pc = "reduced"
    => /\ chunk.results.den = chunk.executed
       /\ chunk.executed > 0
       /\ chunk.results.acc * chunk.executed = chunk.scores * chunk.results.den
       /\ chunk.results.best_q * chunk.executed = chunk.qs * chunk.results.den

\* Two workers with two trajectories each and different sums, the second
\* finished first, one trajectory of the five asked for left out.
C10_Witness ==
    /\ chunk.pc = "reduced"
    /\ chunk.n_jobs = 2 /\ chunk.traj_per_job = 2 /\ chunk.n_trajectories = 5
    /\ chunk.finished = <<2, 1>>
    /\ chunk.accs[1] # chunk.accs[2]
    /\ chunk.results.acc > 0 /\ chunk.results.best_q > 0

\* C11: the average score test_dkt reports, results.acc / n_concepts over the
\* number of trajectories, is the average posttest score of the trajectories
\* run, the sum of the final knowledge vector averaged over them, which is
\* the scale of expected_reward.
C11_PosttestScale ==
    chunk.pc = "reduced"
    => chunk.results.acc * chunk.executed
          = NConcepts * chunk.posttests * chunk.results.den

----------------------------------------------------------------------------
(* Properties of StudentAction *)

\* C13: two actions are equal exactly if their concepts are, equal actions
\* have equal hashes, whatever their conceptvec; so in a children map two
\* actions of the same concept find the same child, and the map holds at most
\* one entry per concept.
C13_ActionKeys ==
    /\ \A a, b \in StudentActions :
          /\ StudentAction_eq(a, b) <=> a.concept = b.concept
          /\ StudentAction_eq(a, b) => StudentAction_hash(a) = StudentAction_hash(b)
          /\ a.concept = b.concept
                => DictGet(children.entries, a) = DictGet(children.entries, b)
    /\ \A n1, n2 \in 1..Len(children.entries) :
          children.entries[n1].key.concept = children.entries[n2].key.concept => n1 = n2
    /\ children.got # "none" => children.got = DictGet(children.entries, children.key)

\* A child stored under an action of concept 1 has been found with an action
\* of the same concept and another vector.
C13_Witness ==
    /\ children.got \in ChildIds
    /\ \E n \in 1..Len(children.entries) :
          /\ children.entries[n].key.concept = children.key.concept
          /\ children.entries[n].key.conceptvec # children.key.conceptvec
          /\ children.entries[n].value = children.got
    /\ Len(children.entries) >= 2

----------------------------------------------------------------------------
(* Properties of training and memoization *)

\* C14: when creating the checkpoint directory fails for another reason than
\* the directory being there already, the call is aborted with no worker
\* started; a directory that exists already is no failure.
C14_OnlyExistsSwallowed ==
    /\ train.makedirs = "PermissionError"
          => train.pc = "failed" /\ train.workers = <<>>
    /\ train.makedirs = "FileExistsError" /\ train.fn \notin ParallelFns
          => train.pc # "failed"

\* C15: a call of dkt_train_models or dkt_memoize_models whose num_runs is not
\* a multiple of n_jobs = min(5, num_runs) has failed with an assertion error,
\* has started no worker and has written no file.
C15_DivisibilityFatal ==
    (/\ train.pc # "idle"
     /\ train.fn \in ParallelFns
     /\ NJobs(train.num_runs) # 0
     /\ train.num_runs % NJobs(train.num_runs) # 0)
    => /\ train.pc = "failed"
       /\ train.error = "AssertionError"
       /\ train.workers = <<>>
       /\ train.files = {}

\* Seven runs for five jobs, the directory in place.
C15_Witness ==
    /\ train.pc = "failed" /\ train.error = "AssertionError"
    /\ train.fn = "dkt_memoize_models"
    /\ train.num_runs = 7 /\ train.n_jobs = 5
    /\ train.dir = "exists"

\* C16: in a training worker the save points of a run are taken in the order
\* of saved_epochs, none left out; a worker that has failed its assertion is
\* at a save point ep with ep + 1 <= epochs trained, has trained nothing for
\* it and saved no checkpoint at it; no save point passed was malformed, and
\* a worker done with its runs had a strictly increasing list starting at 0
\* or later.
C16_MalformedFatal ==
    train.fn \in TrainFns =>
    \A w \in 1..Len(train.workers) :
       LET wk == train.workers[w]
           eps == train.saved_epochs
           WellFormed(j) == eps[j] + 1 > (IF j = 1 THEN 0 ELSE eps[j - 1] + 1)
       IN /\ wk.status # "done" => wk.saved = [j \in 1..wk.ix |-> j]
          /\ \A j \in 1..Len(wk.saved) : WellFormed(wk.saved[j])
          /\ (wk.status = "failed" /\ wk.error = "AssertionError")
                => /\ eps[wk.ix + 1] + 1 <= wk.epochs_trained
                   /\ ~WellFormed(wk.ix + 1)
                   /\ wk.trained = wk.epochs_trained
          /\ (wk.status = "running" /\ train.dir = "exists")
                => wk.trained = wk.epochs_trained
          /\ (wk.status = "done" /\ wk.chunk_num_runs > 0)
                => \A j \in 1..Len(eps) : WellFormed(j)

\* A parallel worker failed at the second save point of a repeating list, its
\* first checkpoint saved, while another worker has not begun.
C16_Witness ==
    /\ train.fn = "dkt_train_models" /\ train.pc = "running"
    /\ train.saved_epochs = <<1, 1>>
    /\ Len(train.workers) >= 2
    /\ train.workers[2].status = "failed" /\ train.workers[2].error = "AssertionError"
    /\ train.workers[2].saved = <<1>>
    /\ <<"checkpoint", 1, 1>> \in train.files
    /\ train.workers[1].ix = 0 /\ train.workers[1].status = "running"

----------------------------------------------------------------------------
(* Properties of memoization *)

C18_HistoryBijection ==
    LET n == memo.n_concepts
        RECURSIVE Decode(_, _)
        Decode(ix, k) ==
            IF k = 0 THEN <<>>
            ELSE Append(Decode(ix \div (2 * n), k - 1),
                        <<(ix % (2 * n)) \div 2, (ix % (2 * n)) % 2>>)
    IN /\ \A j \in 1..Len(memo.stack) :
             LET f == memo.stack[j]
             IN /\ f.history_ix \in 0..((2 * n) ^ Len(f.history) - 1)
                /\ Decode(f.history_ix, Len(f.history)) = f.history
                /\ Len(f.history) = f.step - 1
       /\ \A k \in DOMAIN memo.mem_arrays : \A row \in DOMAIN memo.mem_arrays[k] :
             \A x \in 1..Len(memo.mem_arrays[k][row]) :
                memo.mem_arrays[k][row][x] = Decode(row, k)

\* A history of two different pairs over four concepts has been encoded.
C18_Witness ==
    /\ memo.n_concepts = NConcepts
    /\ \E j \in 1..Len(memo.stack) :
          /\ memo.stack[j].history = << <<3, 1>>, <<2, 0>> >>
          /\ memo.stack[j].history_ix = 7 * 8 + 4

----------------------------------------------------------------------------
(* Properties of staggered training *)

\* C19: the trainer has begun no more training increments than the controller
\* has set the start signal; the controller has begun no more evaluations
\* than it has received losses, and the losses it received last are those of
\* the increment before the evaluation; training and evaluation never run at
\* the same time.
C19_Handshake ==
    /\ stag.t.trains <= stag.c.sets
    /\ stag.c.evals <= stag.c.recvs
    /\ stag.c.ret_val = stag.c.recvs
    /\ stag.c.pc = "evaluating" => stag.c.evals = stag.t.trains
    /\ ~(stag.t.pc = "training" /\ stag.c.pc = "evaluating")

\* The second evaluation runs while the trainer, its second increment sent,
\* waits for the signal.
C19_Witness ==
    /\ stag.c.pc = "evaluating" /\ stag.c.evals = 2
    /\ stag.t.pc = "wait" /\ stag.t.trains = 2
    /\ ~stag.sig_start

----------------------------------------------------------------------------
(* Properties of the dktcache *)

\* C20: every dktcache is used by the models of one checkpoint only, each of
\* its entries was computed by such a model, and no search has been given a
\* prediction that a model of another checkpoint computed.
C20_CacheScoping ==
    /\ ~cache.stale
    /\ \A n \in 1..Len(cache.caches) :
          /\ Cardinality(cache.caches[n].users) <= 1
          /\ \A k \in CacheKeys :
                cache.caches[n].entries[k] # <<>>
                   => cache.caches[n].entries[k] \in cache.caches[n].users

\* Two checkpoints evaluated by test_dkt, each with its own cache holding a
\* prediction for the same history, the second read by another worker.
C20_Witness ==
    /\ cache.fn = "dkt_test_models_mcts"
    /\ Len(cache.caches) >= 2
    /\ cache.caches[1].entries[1] # <<>>
    /\ cache.caches[2].entries[1] # <<>>
    /\ cache.caches[1].entries[1] # cache.caches[2].entries[1]
    /\ cache.caches[2].hit

\* C21: in every interleaving of the workers of a call, a key of the shared
\* dktcache that holds a prediction holds the same one after every step, a
\* read that finds an entry finds the prediction of the reader's own model,
\* and every entry of the cache in use is the prediction of the call's
\* checkpoint.
C21_CacheConsistent ==
    /\ [](/\ ~cache.stale
          /\ cache.pc = "call" =>
                \A k \in CacheKeys :
                   cache.caches[cache.dktcache].entries[k] \in {<<>>, cache.chkpts[cache.i]})
    /\ [][\A n \in 1..Len(cache.caches) : \A k \in CacheKeys :
             cache.caches[n].entries[k] # <<>>
                => cache'.caches[n].entries[k] = cache.caches[n].entries[k]]_vars

\* Two workers of a test_dkt call missed the same key and both stored it; the
\* entry has since been read.
C21_Witness ==
    /\ cache.fn = "dkt_test_models_mcts" /\ cache.pc = "call"
    /\ cache.caches[cache.dktcache].rewritten
    /\ cache.caches[cache.dktcache].hit
    /\ cache.caches[cache.dktcache].entries[1] = cache.chkpts[cache.i]

----------------------------------------------------------------------------
(* Properties of dkt_multistep_single *)

\* C22: a call of dkt_multistep_single whose checkpoints have all been loaded
\* raises no error, goes on to its trajectories with an error array of two
\* rows (random policy, expert policy) and horizon + 1 columns, and does not
\* end before them.
C22_MultistepCompletes ==
    (train.fn = "dkt_multistep_single" /\ train.pc \notin {"idle", "load", "student"})
    => /\ train.error = "none"
       /\ train.pc = "trajectories"
       /\ DOMAIN train.errors = 0..1
       /\ \A p \in 0..1 : DOMAIN train.errors[p] = 0..train.horizon

----------------------------------------------------------------------------
(* Properties of the checkpoint schedule and of the division of the runs *)

StrictlyIncreasing(seq) == \A i \in 1..(Len(seq) - 1) : seq[i] < seq[i + 1]

\* C25: in dkt_train_models with strictly increasing saved_epochs, every worker
\* writes the checkpoints of its runs one run after the other and, within a run,
\* in the order of saved_epochs; when the checkpoint of epoch ep is written, the
\* model of that run has been trained ep + 1 single epochs since it was made.
C25_CheckpointSchedule ==
    (train.fn = "dkt_train_models" /\ StrictlyIncreasing(train.saved_epochs)) =>
        \A w \in 1..Len(train.workers) :
            LET wk == train.workers[w]
                L == Len(train.saved_epochs)
            IN \A i \in 1..Len(wk.writes) :
                  /\ wk.writes[i].r = wk.startix + (i - 1) \div L
                  /\ wk.writes[i].ep = train.saved_epochs[((i - 1) % L) + 1]
                  /\ wk.writes[i].trained = wk.writes[i].ep + 1
                  /\ <<"checkpoint", wk.writes[i].r, wk.writes[i].ep>> \in train.files

\* A worker has written the checkpoints of epochs 0 and 2 of its first run and
\* the checkpoint of epoch 0 of its second run.
C25_Witness ==
    /\ train.fn = "dkt_train_models" /\ train.saved_epochs = <<0, 2>>
    /\ \E w \in 1..Len(train.workers) :
          /\ Len(train.workers[w].writes) = 3
          /\ train.workers[w].writes[2].trained = 3
          /\ train.workers[w].writes[3].r = train.workers[w].startix + 1
          /\ train.workers[w].writes[3].trained = 1

\* C26: when dkt_train_models is called with num_runs >= 1 divisible by
\* n_jobs = min(5, num_runs), exactly n_jobs chunks are started, all of
\* num_runs / n_jobs runs, contiguous from run 0, and every run of
\* 0..num_runs-1 lies in exactly one chunk; the aggregated train_losses saved
\* with the statistics has num_runs entries and entry r holds the losses of the
\* save points of run r.
C26_RunPartition ==
    (train.fn = "dkt_train_models" /\ train.pc \in {"running", "returned"}) =>
        LET n == train.num_runs
            n_jobs == IF n <= 5 THEN n ELSE 5
            W == train.workers
        IN /\ n >= 1 /\ n % n_jobs = 0
           /\ Len(W) = n_jobs
           /\ \A w \in 1..Len(W) : W[w].chunk_num_runs * n_jobs = n
           /\ W[1].startix = 0
           /\ \A w \in 1..(Len(W) - 1) :
                 W[w + 1].startix = W[w].startix + W[w].chunk_num_runs
           /\ \A r \in 0..(n - 1) :
                 Cardinality({w \in 1..Len(W) :
                     W[w].startix <= r /\ r < W[w].startix + W[w].chunk_num_runs}) = 1
           /\ \A w \in 1..Len(W) : \A i \in 1..Len(W[w].writes) :
                 /\ W[w].startix <= W[w].writes[i].r
                 /\ W[w].writes[i].r < W[w].startix + W[w].chunk_num_runs
           /\ train.pc = "returned" =>
                 /\ Len(train.tloss) = n
                 /\ \A r \in 0..(n - 1) :
                       /\ Len(train.tloss[r + 1]) >= Len(train.saved_epochs)
                       /\ \A i \in 1..Len(train.tloss[r + 1]) :
                             train.tloss[r + 1][i].r = r
                       /\ \A j \in 1..Len(train.saved_epochs) :
                             \E i \in 1..Len(train.tloss[r + 1]) :
                                train.tloss[r + 1][i].ep = train.saved_epochs[j]

\* Ten runs were trained by five chunks of two runs and the statistics saved:
\* the last entry of train_losses holds the losses of run 9.
C26_Witness ==
    /\ train.fn = "dkt_train_models" /\ train.pc = "returned"
    /\ train.num_runs = 10 /\ Len(train.workers) = 5
    /\ train.workers[5].startix = 8 /\ train.workers[5].chunk_num_runs = 2
    /\ Len(train.tloss) = 10
    /\ train.tloss[10][1].r = 9

\* C27: the statistics file of dkt_train_models is on disk only when every
\* chunk has returned; once a worker has failed it is never written, and no step
\* removes a checkpoint that was saved.
C27_NoSalvage ==
    /\ [](train.fn = "dkt_train_models" =>
            /\ <<"stats", 0, 0>> \in train.files =>
                  /\ train.pc = "returned"
                  /\ \A w \in 1..Len(train.workers) : train.workers[w].status = "done"
            /\ (train.pc = "failed"
                  \/ \E w \in 1..Len(train.workers) : train.workers[w].status = "failed")
               => <<"stats", 0, 0>> \notin train.files)
    /\ [][train.fn = "dkt_train_models" => train.files \subseteq train'.files]_vars

\* A worker's failure was raised in the caller after checkpoints were saved, by
\* that worker and by another one: they are on disk and no statistics file is.
C27_Witness ==
    /\ train.fn = "dkt_train_models" /\ train.pc = "failed"
    /\ \E w, v \in 1..Len(train.workers) :
          /\ w # v
          /\ train.workers[w].status = "failed"
          /\ Len(train.workers[w].writes) > 0
          /\ Len(train.workers[v].writes) > 0
          /\ \A i \in 1..Len(train.workers[w].writes) :
                <<"checkpoint", train.workers[w].writes[i].r,
                  train.workers[w].writes[i].ep>> \in train.files
    /\ <<"stats", 0, 0>> \notin train.files

----------------------------------------------------------------------------
(* Progress of staggered training, and the death of the training process *)

\* ceil(total_epochs / epochs_per_iter)
CeilDiv(a, b) == CHOOSE n \in 0..a : n * b >= a /\ (n - 1) * b < a

\* C28: with both processes scheduled and every increment and evaluation
\* ending, the start signal is clear whenever the controller sets it, the sets
\* are at most one ahead of the increments begun, the run ends with join()
\* returned, and by then the trainer has done and the controller has evaluated
\* reps * ceil(total_epochs / epochs_per_iter) increments, one per set.
C28_HandshakeProgress ==
    /\ [][stag'.c.sets # stag.c.sets => (~stag.sig_start /\ stag'.sig_start)]_vars
    /\ [](stag.t.trains <= stag.c.sets /\ stag.c.sets <= stag.t.trains + 1)
    /\ [](stag.pc = "done" =>
            LET rounds == stag.reps * CeilDiv(stag.total_epochs, stag.epochs_per_iter)
            IN /\ stag.t.trains = rounds /\ stag.c.sets = rounds
               /\ stag.c.recvs = rounds /\ stag.c.evals = rounds
               /\ stag.pipe = <<>> /\ ~stag.sig_start
               /\ stag.t.pc = "exited" /\ stag.c.pc = "saved")
    /\ (stag.pc = "started" ~> stag.pc = "done")

\* Two reps of two increments, the second one epoch short, have been done.
C28_Witness ==
    /\ stag.pc = "done" /\ stag.reps = 2
    /\ stag.total_epochs = 3 /\ stag.epochs_per_iter = 2
    /\ stag.t.trains = 4 /\ stag.c.evals = 4

\* C29: once the training process has died between sig_start.wait() returning
\* and the losses being sent, the controller stays in p_ch.recv() for ever: it
\* neither goes on nor fails, and the statistics are never saved.
C29_ControllerHangs ==
    /\ [](stag.t.crashed_at \in {"clear", "train", "training"} =>
            /\ stag.t.pc = "crashed"
            /\ stag.c.pc = "recv" /\ stag.pipe = <<>>
            /\ stag.pc = "started")
    /\ [][stag.t.crashed_at \in {"clear", "train", "training"} => stag' = stag]_vars

\* The training process died in its second increment.
C29_Witness ==
    /\ stag.t.pc = "crashed" /\ stag.t.crashed_at = "training"
    /\ stag.t.trains = 2 /\ stag.c.recvs = 1
    /\ stag.c.pc = "recv"

----------------------------------------------------------------------------
(* The wrappers of the memoization *)

\* The pairs 1 .. k of seq read as digits of base 2 n, an action times two plus
\* an observation each.
RECURSIVE FoldHistory(_, _, _)
FoldHistory(n, seq, k) ==
    IF k = 0 THEN 0
    ELSE FoldHistory(n, seq, k - 1) * (2 * n) + (seq[k][1] * 2 + seq[k][2])

----------------------------------------------------------------------------
(* The tables of the memoization *)

\* The tables are allocated, every level from 1 to horizon has (2 n_concepts)^k
\* rows, no write has fallen outside a table, and no frame that writes stands at
\* level 0 or past the horizon.
MemoTablesInBounds ==
    /\ memo.pc # "failed"
    /\ memo.pc # "idle" =>
          /\ DOMAIN memo.mem_arrays = 0..memo.horizon
          /\ \A k \in 1..memo.horizon :
                DOMAIN memo.mem_arrays[k] = 0..((2 * memo.n_concepts) ^ k - 1)
          /\ \A j \in 1..Len(memo.stack) : memo.stack[j].step \in 1..(memo.horizon + 1)
          /\ \A j \in 1..(Len(memo.stack) - 1) : memo.stack[j].step \in 1..memo.horizon

----------------------------------------------------------------------------
(* The number of trajectories of the parallel evaluation *)

\* C32: when test_dkt (or test_student_exact) reduces the sums of its workers,
\* the trajectories the workers have run are as many as n_trajectories asked
\* for, and that number is the denominator of the averages.
C32_AllRequestedRun ==
    chunk.pc = "reduced"
    => /\ chunk.executed = chunk.n_trajectories
       /\ chunk.results.den = chunk.n_trajectories

----------------------------------------------------------------------------
(* The shortest way to full mastery *)

\* C33: on the default tree of four concepts, a Student2 started at knowledge
\* [1, 0, 0, 0] with no visit recorded has, after five or fewer single-concept
\* exercises of any sequence, at least one concept unmastered.
C33_NoMasteryBeforeSix ==
    pol.i < 6 => \E c \in Concepts : Knowledge("sim")[c] = 0

\* Five exercises of a listed sequence are done and only concept 3, visited
\* once, is left; the sixth masters it.
C33_Witness ==
    /\ pol.i = 5 /\ pol.seq \in OptPolicies
    /\ Knowledge("sim") = [c \in Concepts |-> IF c = 3 THEN 0 ELSE 1]
    /\ Visited("sim")[3] = 1

----------------------------------------------------------------------------
(* The result of dkt_multistep *)

\* C34: a call of dkt_multistep that is over has pickled a structure of
\* num_runs entries, each of len(saved_epochs) error arrays, where entry
\* [r][j] is the array computed from the checkpoint, or the memoization file,
\* of run r at epoch saved_epochs[j], in whatever order the tasks ended.
C34_ResultLayout ==
    train.pc \in {"returned", "failed"}
    => /\ train.pickled
       /\ Len(train.outdata) = train.num_runs
       /\ \A r \in 1..train.num_runs :
             /\ Len(train.outdata[r]) = Len(train.saved_epochs)
             /\ \A j \in 1..Len(train.saved_epochs) :
                   /\ train.outdata[r][j].error = "none"
                   /\ train.outdata[r][j].of =
                         <<[kind |-> IF train.use_mem THEN "mem" ELSE "checkpoint",
                            r |-> r - 1, ep |-> train.saved_epochs[j]]>>

----------------------------------------------------------------------------
(* The answer of a Student whose prerequisites are not fulfilled *)

\* C35: a do_exercise call on a Student with p_trans_not_satisfied = 0 and an
\* exercise whose prerequisites are not fulfilled does not return 1, whatever
\* the draw.
C35_UnmetNeverCorrect ==
    [][\A o \in ObjNames :
          (/\ last'.op = "do_exercise" /\ last'.tgt = o
           /\ objs[o].kind = "Student"
           /\ objs[o].p.p_trans_not_satisfied = 0
           /\ ~FulfilledPrereqs(objs[o].dgraph, Knowledge(o), last'.ex))
          => last'.ret # 1]_vars

----------------------------------------------------------------------------
(* Knowledge and the prerequisites *)

----------------------------------------------------------------------------
(* The losses kept for a run *)

\* C37: when dkt_train_models has returned and saved_epochs is strictly
\* increasing, the training losses of every run (and its validation losses,
\* built alike) are saved_epochs[-1] + 1 entries: entry i is the loss of the
\* i-th epoch the run's model was trained, each epoch once.
C37_LossBookkeeping ==
    (/\ train.fn = "dkt_train_models" /\ train.pc = "returned"
     /\ StrictlyIncreasing(train.saved_epochs))
    => \A r \in 1..train.num_runs :
          /\ Len(train.tloss[r]) = train.saved_epochs[Len(train.saved_epochs)] + 1
          /\ \A i \in 1..Len(train.tloss[r]) :
                /\ train.tloss[r][i].epoch = i
                /\ train.tloss[r][i].r = r - 1

\* Ten runs with checkpoints at epochs 0 and 2: the last run has the loss of
\* its first epoch from the first save point and two from the second.
C37_Witness ==
    /\ train.fn = "dkt_train_models" /\ train.pc = "returned"
    /\ train.num_runs = 10 /\ train.saved_epochs = <<0, 2>>
    /\ Len(train.tloss[10]) = 3
    /\ train.tloss[10][1].ep = 0
    /\ train.tloss[10][2].ep = 2 /\ train.tloss[10][3].ep = 2
====
